---- MODULE Spec2Model ----
(***************************************************************************)
(* ScriptGuard: the policy store (policies.js, popup/popup.js,              *)
(* background.js), the relay (content script) and the page agent            *)
(* (page_agent.js, two agent blocks in one file) as a state machine.        *)
(*                                                                          *)
(* A JavaScript object is a function whose DOMAIN is the set of keys the    *)
(* object has: an absent key is a key outside the DOMAIN.  Booleans are     *)
(* BOOLEAN, the DOM mode is a string, the clock counts minutes (the         *)
(* factor 60 * 1000 of policies.js:286 is the unit of the clock).           *)
(***************************************************************************)
EXTENDS Integers, Sequences, FiniteSets, TLC

VARIABLES
    store,      \* chrome.storage.local["scriptguard_policies"], NoRecord when unset
    presetsSet, \* TRUE when chrome.storage.local["scriptguard_presets"] holds PRESETS
    cache,      \* window.__SG_POLICIES__ of the page
    inbox,      \* policy messages posted to the page, not yet handled
    loc,        \* window.location of the page
    now,        \* Date.now(), in minutes
    nops,       \* number of Policy Store mutations made so far
    last,       \* the last step and what it returned, as of the current state
    logBuffer,  \* background.js logBuffer, newest record first
    flushTimer, \* background.js flushTimer: TRUE while a timer is armed
    scriptguard_logs, \* chrome.storage.local["scriptguard_logs"], newest first
    storageQ,   \* calls of chrome.storage.local made by background.js, in flight
    seq,        \* the number of the next record the background receives
    timers,     \* the callbacks of setTimeout in background.js that have not run yet
    clearRequest, \* the last SG_CLEAR_LOGS: the value of seq at the request, its state
    logsResponse, \* the last response of SG_GET_LOGS
    agent,      \* the page agent: has it run, and has a push found no listener
    windowQ,    \* window.postMessage events not yet dispatched, oldest first
    relayReads, \* the calls of sendPoliciesToPage that await their storage read
    changed,    \* chrome.storage.onChanged events not yet dispatched to the relay
    contexts,   \* the mutation each extension context is in the middle of
    scriptguard_cookie_actions, \* chrome.storage.local["scriptguard_cookie_actions"]
    persisted   \* every value chrome.storage.local["scriptguard_policies"] has held

logVars ==
    <<logBuffer, flushTimer, scriptguard_logs, storageQ, seq, timers, clearRequest,
      logsResponse>>

histVars == <<scriptguard_cookie_actions, persisted>>

relayVars == <<agent, windowQ, relayReads, changed>>

\* what the steps of the policy store and of the page leave alone
aux == <<logVars, relayVars, contexts, histVars>>

\* what a write of the policy record leaves alone
auxOfWrite == <<logVars, relayVars, contexts, scriptguard_cookie_actions>>

vars ==
    <<store, presetsSet, cache, inbox, loc, now, nops, last, logVars, relayVars, contexts,
      histVars>>

-----------------------------------------------------------------------------
(* Bounds                                                                  *)

MaxTime == 7
MaxOps == 2
MaxTempOps == 1
MaxInbox == 1

-----------------------------------------------------------------------------
(* Objects                                                                 *)

EmptyObj == [k \in {} |-> TRUE]

Has(o, k) == k \in DOMAIN o

Put(o, k, v) == [x \in DOMAIN o \cup {k} |-> IF x = k THEN v ELSE o[x]]

\* Object.assign({}, a, b) and { ...a, ...b }: the keys of b win, whole values
ObjectAssign(a, b) ==
    [x \in DOMAIN a \cup DOMAIN b |-> IF x \in DOMAIN b THEN b[x] ELSE a[x]]

\* The value of the network field: an object of sub-fields, or the boolean true
NetObject(o) == [type |-> "object", val |-> o]
NetBool(b) == [type |-> "boolean", val |-> [k \in {"value"} |-> b]]
NetTrue == NetBool(TRUE)

Net4(f, x, w, b) == NetObject([fetch |-> f, xhr |-> x, websocket |-> w, beacon |-> b])

-----------------------------------------------------------------------------
(* Policy documents of the source                                          *)

\* background.js DEFAULT_POLICY: 12 fields
DEFAULT_POLICY ==
    [network |-> Net4(TRUE, TRUE, TRUE, TRUE), storage |-> TRUE, dom |-> "full",
     cookies |-> TRUE, eval |-> FALSE, geolocation |-> FALSE, camera |-> FALSE,
     microphone |-> FALSE, clipboard |-> FALSE, notifications |-> FALSE,
     webrtc |-> FALSE, scriptLoading |-> [inline |-> FALSE, external |-> TRUE]]

\* the 19 capability fields every preset of policies.js sets, then cookiePolicy
PresetPolicy(net, domMode, sens, geo, inl, ext, idb, cp) ==
    [network |-> net, storage |-> TRUE, dom |-> domMode, cookies |-> TRUE,
     eval |-> sens, geolocation |-> geo, camera |-> sens, microphone |-> sens,
     clipboard |-> sens, notifications |-> sens, webrtc |-> sens,
     scriptLoading |-> [inline |-> inl, external |-> ext],
     accelerometer |-> sens, imageLoading |-> TRUE, styleLoading |-> TRUE,
     localStorage |-> TRUE, sessionStorage |-> TRUE, indexeddb |-> idb,
     functionConstructor |-> sens, cookiePolicy |-> cp]

PRESETS ==
    [essential |->
        [name |-> "Essential",
         policy |-> PresetPolicy(Net4(TRUE, TRUE, FALSE, FALSE), "readonly", FALSE,
                                 FALSE, FALSE, FALSE, FALSE, "cookiePolicy:essential")],
     privacy_first |->
        [name |-> "Privacy First",
         policy |-> PresetPolicy(Net4(TRUE, TRUE, FALSE, FALSE), "readonly", FALSE,
                                 FALSE, FALSE, TRUE, FALSE, "cookiePolicy:privacy_first")],
     balanced |->
        [name |-> "Balanced",
         policy |-> PresetPolicy(Net4(TRUE, TRUE, TRUE, TRUE), "full", FALSE,
                                 TRUE, TRUE, TRUE, TRUE, "cookiePolicy:balanced")],
     permissive |->
        [name |-> "Permissive",
         policy |-> PresetPolicy(Net4(TRUE, TRUE, TRUE, TRUE), "full", TRUE,
                                 TRUE, TRUE, TRUE, TRUE, "cookiePolicy:permissive")],
     relaxed |->
        [name |-> "Relaxed",
         policy |-> PresetPolicy(Net4(TRUE, TRUE, TRUE, TRUE), "full", TRUE,
                                 TRUE, TRUE, TRUE, TRUE, "cookiePolicy:relaxed")]]

\* popup/popup.js getPresets: the catalog it falls back to has no policy field
POPUP_DEFAULT_PRESETS ==
    [privacy_first |-> [name |-> "Privacy First"],
     balanced |-> [name |-> "Balanced"],
     relaxed |-> [name |-> "Relaxed"]]

\* the default SG_getDomainPolicy falls back to, first agent block (19 fields)
AGENT1_FALLBACK ==
    [network |-> Net4(TRUE, TRUE, TRUE, TRUE), storage |-> TRUE, dom |-> "full",
     cookies |-> TRUE, eval |-> FALSE, geolocation |-> FALSE, camera |-> FALSE,
     microphone |-> FALSE, clipboard |-> FALSE, notifications |-> FALSE,
     webrtc |-> FALSE, scriptLoading |-> [inline |-> FALSE, external |-> TRUE],
     accelerometer |-> FALSE, imageLoading |-> TRUE, styleLoading |-> TRUE,
     localStorage |-> TRUE, sessionStorage |-> TRUE, indexeddb |-> TRUE,
     functionConstructor |-> FALSE]

\* the default SG_getDomainPolicy falls back to, second agent block (12 fields)
AGENT2_FALLBACK == DEFAULT_POLICY

\* popup/popup.js setAllowOnce: the default it falls back to
POPUP_ALLOWONCE_FALLBACK ==
    [network |-> NetTrue, storage |-> TRUE, dom |-> "full", cookies |-> TRUE,
     eval |-> TRUE]

\* the _allowOnce bundle of policies.js setAllowOnce and popup/popup.js setAllowOnce
AllowOnceBundle(until) ==
    [network |-> NetTrue, storage |-> TRUE, dom |-> "full", cookies |-> TRUE,
     eval |-> TRUE, until |-> until]

\* popup/popup.js setAllowOnce: 5 * 60 * 1000 ms; policies.js: durationMinutes = 5
ALLOW_ONCE_MINUTES == 5

-----------------------------------------------------------------------------
(* The persisted policy record                                             *)

\* chrome.storage.local has no scriptguard_policies key: (... || {})
NoRecord == EmptyObj

\* background.js onInstalled
InstalledRecord ==
    [default |-> DEFAULT_POLICY, _presets |-> "PRESET_POLICIES"]

\* policies.js SG_initDefaultPolicies
InitDefaultRecord ==
    [default |-> PRESETS.balanced.policy, _selectedPreset |-> "balanced"]

-----------------------------------------------------------------------------
(* Policy Store: policies.js                                               *)

\* getPresets: result[SCRIPTGUARD_PRESETS_KEY] || PRESETS
getPresets(stored) == IF stored THEN PRESETS ELSE PRESETS

\* getDomainPolicy: { ...defaultPolicy, ...domainPolicy }
getDomainPolicy(policies, domain) ==
    LET defaultPolicy == IF Has(policies, "default") THEN policies["default"]
                         ELSE PRESETS.balanced.policy
        domainPolicy == IF Has(policies, domain) THEN policies[domain] ELSE EmptyObj
    IN  ObjectAssign(defaultPolicy, domainPolicy)

\* updateDomainPolicy: policies[domain] = policy
updateDomainPolicy(policies, domain, policy) == Put(policies, domain, policy)

\* applyPreset: throws on an unknown preset before anything is written
applyPreset(policies, stored, domain, presetName) ==
    LET presets == getPresets(stored)
    IN  IF ~Has(presets, presetName)
        THEN [err |-> "UnknownPreset", policies |-> policies]
        ELSE [err |-> "none",
              policies |-> Put(Put(policies, domain, presets[presetName].policy),
                               "_selectedPreset", presetName)]

\* setAllowOnce: the merged policy of the domain, with _allowOnce, becomes its override
setAllowOnce(policies, domain, durationMinutes, t) ==
    LET policy == Put(getDomainPolicy(policies, domain), "_allowOnce",
                      AllowOnceBundle(t + durationMinutes))
    IN  updateDomainPolicy(policies, domain, policy)

-----------------------------------------------------------------------------
(* Policy Store: popup/popup.js                                            *)

\* getPresets of the popup: the stored catalog, else one without policies
popup_getPresets(stored) == IF stored THEN PRESETS ELSE POPUP_DEFAULT_PRESETS

\* applyPreset of the popup: an unknown id is skipped, nothing is thrown
popup_applyPreset(policies, stored, hostname, presetId) ==
    LET presets == popup_getPresets(stored)
    IN  IF Has(presets, presetId)
        THEN [err |-> "none",
              policies |-> Put(policies, hostname,
                               IF Has(presets[presetId], "policy")
                               THEN presets[presetId].policy ELSE EmptyObj)]
        ELSE [err |-> "none", policies |-> policies]

\* savePolicy: the override is rebuilt from the 19 controls of the popup
savePolicy(policies, hostname, ui) == Put(policies, hostname, ui)

\* setAllowOnce of the popup: currentPolicy is the stored object itself, so with no
\* override the default document is the object that receives _allowOnce
popup_setAllowOnce(policies, hostname, t) ==
    LET bundle == AllowOnceBundle(t + ALLOW_ONCE_MINUTES)
        aliased == ~Has(policies, hostname) /\ Has(policies, "default")
        defaultPolicy == IF Has(policies, "default") THEN policies["default"]
                         ELSE POPUP_ALLOWONCE_FALLBACK
        currentPolicy == Put(IF Has(policies, hostname) THEN policies[hostname]
                             ELSE defaultPolicy, "_allowOnce", bundle)
        written == IF aliased THEN Put(policies, "default", currentPolicy) ELSE policies
    IN  Put(written, hostname, currentPolicy)

-----------------------------------------------------------------------------
(* Page agent: policy resolution (page_agent.js)                           *)

\* SG_isTempAllowed with the comparison made strict
SG_isTempAllowed_strict(policy, t) ==
    IF ~Has(policy, "_allowOnce") THEN FALSE ELSE t < policy["_allowOnce"].until

\* SG_isTempAllowed
SG_isTempAllowed(policy, t) ==
    IF ~Has(policy, "_allowOnce") THEN FALSE ELSE t <= policy["_allowOnce"].until

\* the first of hostname, host, origin that has a document in the policy set
SG_hostPolicy(policies, location) ==
    IF Has(policies, location.hostname) THEN policies[location.hostname]
    ELSE IF Has(policies, location.host) THEN policies[location.host]
    ELSE IF Has(policies, location.origin) THEN policies[location.origin]
    ELSE EmptyObj

\* a resolution that fills the fields the stored default lacks from the literal
SG_getDomainPolicy_filled(policies, location, t, fallback) ==
    LET defaultPolicy == IF Has(policies, "default")
                         THEN ObjectAssign(fallback, policies["default"])
                         ELSE fallback
        hostPolicy == SG_hostPolicy(policies, location)
        merged == ObjectAssign(defaultPolicy, hostPolicy)
    IN  IF Has(hostPolicy, "_allowOnce") /\ hostPolicy["_allowOnce"].until > t
        THEN ObjectAssign(merged, hostPolicy["_allowOnce"])
        ELSE merged

\* SG_getDomainPolicy(location.hostname); fallback is the literal of the agent block
SG_getDomainPolicy(policies, location, t, fallback) ==
    LET defaultPolicy == IF Has(policies, "default") THEN policies["default"]
                         ELSE fallback
        hostPolicy == SG_hostPolicy(policies, location)
        merged == ObjectAssign(defaultPolicy, hostPolicy)
    IN  IF Has(hostPolicy, "_allowOnce") /\ hostPolicy["_allowOnce"].until > t
        THEN ObjectAssign(merged, hostPolicy["_allowOnce"])
        ELSE merged

\* SG_policyNetworkOff: policy.network is false, 'false', '0' or 0
SG_policyNetworkOff(policy) ==
    /\ Has(policy, "network")
    /\ policy["network"].type = "boolean"
    /\ ~policy["network"].val["value"]

\* policy.network && typeof policy.network === 'object'
NetworkIsObject(policy) == Has(policy, "network") /\ policy["network"].type = "object"

\* policy.network.<sub> === true, === false
NetSubIsTrue(policy, sub) ==
    Has(policy["network"].val, sub) /\ policy["network"].val[sub] = TRUE
NetSubIsFalse(policy, sub) ==
    Has(policy["network"].val, sub) /\ policy["network"].val[sub] = FALSE

\* policy.<field> === true, === false
IsTrue(policy, field) == Has(policy, field) /\ policy[field] = TRUE
IsFalse(policy, field) == Has(policy, field) /\ policy[field] = FALSE

\* SG_createLog: type, decision and the detail that names the call
SG_createLog(type, decision, detail) ==
    [type |-> type, decision |-> decision, detail |-> detail]

\* what one call of an interceptor did: the decision, the records it handed to
\* SG_sendLog, and how the call ended for the caller
Allow(how) == [decision |-> "allowed", logs |-> <<>>, how |-> how]

\* a block whose record is not handed to SG_sendLog
Block_unlogged(type, detail, how) ==
    [decision |-> "blocked", logs |-> <<>>, how |-> how]

Block(type, detail, how) ==
    [decision |-> "blocked", logs |-> <<SG_createLog(type, "blocked", detail)>>,
     how |-> how]

-----------------------------------------------------------------------------
(* Page agent, first block (page_agent.js 5-1262): the interceptors.       *)
(* P is window.__SG_POLICIES__, L is window.location, t is Date.now(),     *)
(* a is the call: a.api names the API, a.url is "page" or "internal"        *)
(* (SG_isInternalURL), a.kind is the observable shape of the arguments.    *)

Policy1(P, L, t) == SG_getDomainPolicy(P, L, t, AGENT1_FALLBACK)

\* fetch: init that is present, not null and not an object is dropped
SanitizeInit(kind) == IF kind \in {"string", "number"} THEN "absent" ELSE kind

NativeFetch(kind) == Allow(IF kind = "absent" THEN "native(resource)"
                           ELSE "native(resource,init)")

A1_fetch(P, L, t, a) ==
    LET policy == Policy1(P, L, t)
    IN  IF a.url = "internal" THEN NativeFetch(a.kind)
        ELSE IF SG_isTempAllowed(policy, t) THEN NativeFetch(a.kind)
        ELSE IF NetworkIsObject(policy) /\ ~NetSubIsTrue(policy, "fetch")
             THEN Block("fetch", "fetch", "reject")
        ELSE IF ~NetworkIsObject(policy) /\ SG_policyNetworkOff(policy)
             THEN Block("fetch", "fetch", "reject")
        ELSE NativeFetch(SanitizeInit(a.kind))

A1_xhrSend(P, L, t, a) ==
    LET policy == Policy1(P, L, t)
    IN  IF a.url = "internal" THEN Allow("native")
        ELSE IF SG_isTempAllowed(policy, t) THEN Allow("native")
        ELSE IF NetworkIsObject(policy) /\ ~NetSubIsTrue(policy, "xhr")
             THEN Block("xhr", "send", "abort")
        ELSE IF ~NetworkIsObject(policy) /\ SG_policyNetworkOff(policy)
             THEN Block("xhr", "send", "abort")
        ELSE Allow("native")

A1_WebSocket(P, L, t, a) ==
    LET policy == Policy1(P, L, t)
    IN  IF a.url = "internal" THEN Allow("native")
        ELSE IF SG_isTempAllowed(policy, t) THEN Allow("native")
        ELSE IF NetworkIsObject(policy) /\ ~NetSubIsTrue(policy, "websocket")
             THEN Block("websocket", "WebSocket", "throw")
        ELSE IF ~NetworkIsObject(policy) /\ SG_policyNetworkOff(policy)
             THEN Block("websocket", "WebSocket", "throw")
        ELSE Allow("native")

A1_sendBeacon(P, L, t, a) ==
    LET policy == Policy1(P, L, t)
    IN  IF SG_isTempAllowed(policy, t) THEN Allow("native")
        ELSE IF NetworkIsObject(policy) /\ ~NetSubIsTrue(policy, "beacon")
             THEN Block("beacon", "sendBeacon", "return false")
        ELSE IF ~NetworkIsObject(policy) /\ SG_policyNetworkOff(policy)
             THEN Block("beacon", "sendBeacon", "return false")
        ELSE Allow("native")

\* getCurrentPosition on the Geolocation object: the error callback runs in a timer
A1_getCurrentPosition(P, L, t, a) ==
    LET policy == Policy1(P, L, t)
    IN  IF SG_isTempAllowed(policy, t) THEN Allow("native")
        ELSE IF ~IsTrue(policy, "geolocation")
             THEN Block("geolocation", "getCurrentPosition", "async error callback")
        ELSE Allow("native")

A1_watchPosition(P, L, t, a) ==
    LET policy == Policy1(P, L, t)
    IN  IF SG_isTempAllowed(policy, t) THEN Allow("native")
        ELSE IF ~IsTrue(policy, "geolocation")
             THEN Block("geolocation", "watchPosition", "async error callback")
        ELSE Allow("native")

\* 4b: navigator.permissions.query, geolocation
A1_permissionsQueryGeo(P, L, t, a) ==
    LET policy == Policy1(P, L, t)
    IN  IF a.kind = "geolocation" /\ ~IsTrue(policy, "geolocation")
        THEN Block("geolocation", "permissions.query", "resolve denied")
        ELSE Allow("native")

\* 5b: navigator.permissions.query, camera and microphone; wraps 4b
A1_permissionsQuery(P, L, t, a) ==
    LET policy == Policy1(P, L, t)
    IN  IF a.kind = "camera" /\ ~IsTrue(policy, "camera")
        THEN Block("camera", "permissions.query", "resolve denied")
        ELSE IF a.kind = "microphone" /\ ~IsTrue(policy, "microphone")
        THEN Block("microphone", "permissions.query", "resolve denied")
        ELSE A1_permissionsQueryGeo(P, L, t, a)

\* the getter hiding navigator.geolocation only on an explicit false
A1_geolocationGetter_onlyFalse(P, L, t, a) ==
    LET policy == Policy1(P, L, t)
    IN  IF IsFalse(policy, "geolocation")
        THEN Block("geolocation", "property access", "undefined")
        ELSE Allow("empty object")

\* 4c: the getter of navigator.geolocation: undefined when blocked, else
\* this.__geolocation__ || {}, and no code sets __geolocation__
A1_geolocationGetter(P, L, t, a) ==
    LET policy == Policy1(P, L, t)
    IN  IF ~IsTrue(policy, "geolocation")
        THEN Block("geolocation", "property access", "undefined")
        ELSE Allow("empty object")

\* constraints.video, constraints.audio as the interceptors read them
NeedsCamera(kind) == kind \in {"video", "both"}
NeedsMicrophone(kind) == kind \in {"audio", "both"}

A1_getUserMedia(P, L, t, a) ==
    LET policy == Policy1(P, L, t)
    IN  IF SG_isTempAllowed(policy, t) /\ a.kind = "neither" THEN Allow("native")
        ELSE IF NeedsCamera(a.kind) /\ ~IsTrue(policy, "camera")
             THEN Block("camera", "getUserMedia", "reject")
        ELSE IF NeedsMicrophone(a.kind) /\ ~IsTrue(policy, "microphone")
             THEN Block("microphone", "getUserMedia", "reject")
        ELSE Allow("native")

\* the devices the native enumerateDevices reports, by a.kind
Devices(kind) ==
    CASE kind = "camera+microphone" -> <<"videoinput", "audioinput">>
      [] kind = "camera" -> <<"videoinput">>
      [] OTHER -> <<>>

RECURSIVE FilterLogs(_, _)
FilterLogs(policy, devices) ==
    IF devices = <<>> THEN <<>>
    ELSE LET d == Head(devices)
             rest == FilterLogs(policy, Tail(devices))
         IN  IF d = "videoinput" /\ ~IsTrue(policy, "camera")
             THEN <<SG_createLog("camera", "blocked", "device")>> \o rest
             ELSE IF d = "audioinput" /\ ~IsTrue(policy, "microphone")
             THEN <<SG_createLog("microphone", "blocked", "device")>> \o rest
             ELSE rest

A1_enumerateDevices(P, L, t, a) ==
    LET policy == Policy1(P, L, t)
        logs == FilterLogs(policy, Devices(a.kind))
    IN  IF ~IsTrue(policy, "camera") /\ ~IsTrue(policy, "microphone")
        THEN [decision |-> "blocked",
              logs |-> <<SG_createLog("camera", "blocked", "enumerateDevices"),
                         SG_createLog("microphone", "blocked", "enumerateDevices")>>,
              how |-> "resolve []"]
        ELSE [decision |-> IF logs = <<>> THEN "allowed" ELSE "blocked",
              logs |-> logs, how |-> "native, filtered"]

A1_clipboardReadText(P, L, t, a) ==
    LET policy == Policy1(P, L, t)
    IN  IF SG_isTempAllowed(policy, t) THEN Allow("native")
        ELSE IF ~IsTrue(policy, "clipboard")
             THEN Block("clipboard", "readText", "reject")
        ELSE Allow("native")

A1_clipboardWriteText(P, L, t, a) ==
    LET policy == Policy1(P, L, t)
    IN  IF SG_isTempAllowed(policy, t) THEN Allow("native")
        ELSE IF ~IsTrue(policy, "clipboard")
             THEN Block("clipboard", "writeText", "reject")
        ELSE Allow("native")

A1_Notification(P, L, t, a) ==
    LET policy == Policy1(P, L, t)
    IN  IF SG_isTempAllowed(policy, t) THEN Allow("native")
        ELSE IF ~IsTrue(policy, "notifications")
             THEN Block("notifications", "Notification", "throw")
        ELSE Allow("native")

\* 8: RTCPeerConnection keyed on webrtc
A1_RTCPeerConnection(P, L, t, a) ==
    LET policy == Policy1(P, L, t)
    IN  IF SG_isTempAllowed(policy, t) THEN Allow("native")
        ELSE IF ~IsTrue(policy, "webrtc")
             THEN Block("webrtc", "RTCPeerConnection", "throw")
        ELSE Allow("native")

\* 24: RTCPeerConnection keyed on geolocation; wraps 8
A1_RTCPeerConnectionGeo(P, L, t, a) ==
    LET policy == Policy1(P, L, t)
    IN  IF ~IsTrue(policy, "geolocation")
        THEN Block("geolocation", "RTCPeerConnection", "no-op object")
        ELSE A1_RTCPeerConnection(P, L, t, a)

\* eval blocked only on an explicit false
A1_eval_onlyFalse(P, L, t, a) ==
    LET policy == Policy1(P, L, t)
    IN  IF SG_isTempAllowed(policy, t) THEN Allow("native")
        ELSE IF IsFalse(policy, "eval") THEN Block("eval", "eval", "throw")
        ELSE Allow("native")

A1_eval(P, L, t, a) ==
    LET policy == Policy1(P, L, t)
    IN  IF SG_isTempAllowed(policy, t) THEN Allow("native")
        ELSE IF ~IsTrue(policy, "eval") THEN Block("eval", "eval", "throw")
        ELSE Allow("native")

\* 10: setAttribute('src') of a created script element
A1_scriptSetSrc(P, L, t, a) ==
    LET policy == Policy1(P, L, t)
    IN  IF Has(policy, "scriptLoading") /\ ~IsTrue(policy["scriptLoading"], "external")
        THEN Block("scriptLoading", "setAttribute", "return")
        ELSE Allow("native")

\* 12, 13: the agent's own devicemotion and deviceorientation listeners
A1_devicemotion(P, L, t, a) ==
    LET policy == Policy1(P, L, t)
    IN  IF ~IsTrue(policy, "accelerometer")
        THEN Block("accelerometer", "devicemotion", "preventDefault")
        ELSE Allow("native")

A1_deviceorientation(P, L, t, a) ==
    LET policy == Policy1(P, L, t)
    IN  IF ~IsTrue(policy, "accelerometer")
        THEN Block("deviceorientation", "deviceorientation", "preventDefault")
        ELSE Allow("native")

\* 14, 14b, 14c, 14d: image src, srcset, setAttribute('src'); a.kind names the way
A1_imageLoading(P, L, t, a) ==
    LET policy == Policy1(P, L, t)
    IN  IF IsFalse(policy, "imageLoading")
        THEN Block("imageLoading", a.kind, "return")
        ELSE Allow("native")

\* 15, 15b, 15c: stylesheet href and rel, style text, inline style
A1_styleLoading(P, L, t, a) ==
    LET policy == Policy1(P, L, t)
    IN  IF IsFalse(policy, "styleLoading")
        THEN Block("styleLoading", a.kind, "return")
        ELSE Allow("native")

A1_indexedDBOpen(P, L, t, a) ==
    LET policy == Policy1(P, L, t)
    IN  IF ~IsTrue(policy, "indexeddb")
        THEN Block("indexeddb", "open", "reject")
        ELSE Allow("native")

A1_FunctionConstructor(P, L, t, a) ==
    LET policy == Policy1(P, L, t)
    IN  IF ~IsTrue(policy, "functionConstructor")
        THEN Block("functionConstructor", "construct", "throw")
        ELSE Allow("native")

\* Storage.prototype.setItem, getItem, removeItem, clear; a.kind is the storage
\* object, a.api the method
A1_Storage(P, L, t, a) ==
    LET policy == Policy1(P, L, t)
        capability == IF a.kind = "sessionStorage" THEN "sessionStorage"
                      ELSE "localStorage"
    IN  IF SG_isTempAllowed(policy, t) THEN Allow("native")
        ELSE IF ~IsTrue(policy, capability)
             THEN Block(capability, a.api, "return")
        ELSE Allow("native")

\* 6: appendChild and the innerHTML setter; a.url is "internal" when
\* window.__SG_INTERNAL_CALL__ is set, a.kind the operation
A1_domMutation(P, L, t, a) ==
    LET policy == Policy1(P, L, t)
    IN  IF a.url = "internal" THEN Allow("native")
        ELSE IF SG_isTempAllowed(policy, t) THEN Allow("native")
        ELSE IF Has(policy, "dom") /\ policy["dom"] \in {"readonly", "none"}
             THEN Block("dom-mod", a.kind, "return")
        ELSE Allow("native")

\* 23: window.addEventListener; a.kind is the event type
A1_addEventListener(P, L, t, a) ==
    LET policy == Policy1(P, L, t)
    IN  IF a.kind \in {"devicemotion", "deviceorientation", "orientationchange"}
           /\ ~IsTrue(policy, "geolocation")
        THEN Block("geolocation", a.kind, "return")
        ELSE Allow("native")

-----------------------------------------------------------------------------
(* Page agent, second block (page_agent.js 1268-1916).  It runs after the  *)
(* first in the same page, so what it saves as the original of an API is   *)
(* the first block's interceptor: each of its interceptors ends in a call  *)
(* of the first block's.                                                   *)

Policy2(P, L, t) == SG_getDomainPolicy(P, L, t, AGENT2_FALLBACK)

A2_fetch(P, L, t, a) ==
    LET policy == Policy2(P, L, t)
    IN  IF a.url = "internal" THEN A1_fetch(P, L, t, a)
        ELSE IF SG_isTempAllowed(policy, t) THEN A1_fetch(P, L, t, a)
        ELSE IF NetworkIsObject(policy) /\ NetSubIsFalse(policy, "fetch")
             THEN Block("fetch", "fetch", "reject")
        ELSE IF ~NetworkIsObject(policy) /\ SG_policyNetworkOff(policy)
             THEN Block("fetch", "fetch", "reject")
        ELSE A1_fetch(P, L, t, [a EXCEPT !.kind = SanitizeInit(a.kind)])

A2_xhrSend(P, L, t, a) ==
    LET policy == Policy2(P, L, t)
    IN  IF a.url = "internal" THEN A1_xhrSend(P, L, t, a)
        ELSE IF SG_isTempAllowed(policy, t) THEN A1_xhrSend(P, L, t, a)
        ELSE IF NetworkIsObject(policy) /\ NetSubIsFalse(policy, "xhr")
             THEN Block("xhr", "send", "abort")
        ELSE IF ~NetworkIsObject(policy) /\ SG_policyNetworkOff(policy)
             THEN Block("xhr", "send", "abort")
        ELSE A1_xhrSend(P, L, t, a)

A2_WebSocket(P, L, t, a) ==
    LET policy == Policy2(P, L, t)
    IN  IF a.url = "internal" THEN A1_WebSocket(P, L, t, a)
        ELSE IF SG_isTempAllowed(policy, t) THEN A1_WebSocket(P, L, t, a)
        ELSE IF NetworkIsObject(policy) /\ NetSubIsFalse(policy, "websocket")
             THEN Block("websocket", "WebSocket", "throw")
        ELSE IF ~NetworkIsObject(policy) /\ SG_policyNetworkOff(policy)
             THEN Block("websocket", "WebSocket", "throw")
        ELSE A1_WebSocket(P, L, t, a)

A2_sendBeacon(P, L, t, a) ==
    LET policy == Policy2(P, L, t)
    IN  IF SG_isTempAllowed(policy, t) THEN A1_sendBeacon(P, L, t, a)
        ELSE IF NetworkIsObject(policy) /\ NetSubIsFalse(policy, "beacon")
             THEN Block("beacon", "sendBeacon", "return false")
        ELSE IF ~NetworkIsObject(policy) /\ SG_policyNetworkOff(policy)
             THEN Block("beacon", "sendBeacon", "return false")
        ELSE A1_sendBeacon(P, L, t, a)

\* the geolocation interceptors of the second block: the error callback is
\* called before the call returns
A2_getCurrentPosition(P, L, t, a) ==
    LET policy == Policy2(P, L, t)
    IN  IF SG_isTempAllowed(policy, t) /\ ~IsFalse(policy, "geolocation")
        THEN A1_getCurrentPosition(P, L, t, a)
        ELSE IF IsFalse(policy, "geolocation")
             THEN Block("geolocation", "getCurrentPosition", "sync error callback")
        ELSE A1_getCurrentPosition(P, L, t, a)

A2_watchPosition(P, L, t, a) ==
    LET policy == Policy2(P, L, t)
    IN  IF SG_isTempAllowed(policy, t) /\ ~IsFalse(policy, "geolocation")
        THEN A1_watchPosition(P, L, t, a)
        ELSE IF IsFalse(policy, "geolocation")
             THEN Block("geolocation", "watchPosition", "sync error callback")
        ELSE A1_watchPosition(P, L, t, a)

\* constraints.video of undefined throws inside the try: the catch falls
\* through to the original
A2_getUserMedia(P, L, t, a) ==
    LET policy == Policy2(P, L, t)
    IN  IF SG_isTempAllowed(policy, t) /\ a.kind = "undefined"
        THEN A1_getUserMedia(P, L, t, a)
        ELSE IF SG_isTempAllowed(policy, t) /\ a.kind = "neither"
        THEN A1_getUserMedia(P, L, t, a)
        ELSE IF NeedsCamera(a.kind) /\ IsFalse(policy, "camera")
             THEN Block("camera", "getUserMedia", "reject")
        ELSE IF NeedsMicrophone(a.kind) /\ IsFalse(policy, "microphone")
             THEN Block("microphone", "getUserMedia", "reject")
        ELSE A1_getUserMedia(P, L, t, a)

A2_clipboardReadText(P, L, t, a) ==
    LET policy == Policy2(P, L, t)
    IN  IF SG_isTempAllowed(policy, t) THEN A1_clipboardReadText(P, L, t, a)
        ELSE IF IsFalse(policy, "clipboard")
             THEN Block("clipboard", "readText", "reject")
        ELSE A1_clipboardReadText(P, L, t, a)

A2_clipboardWriteText(P, L, t, a) ==
    LET policy == Policy2(P, L, t)
    IN  IF SG_isTempAllowed(policy, t) THEN A1_clipboardWriteText(P, L, t, a)
        ELSE IF IsFalse(policy, "clipboard")
             THEN Block("clipboard", "writeText", "reject")
        ELSE A1_clipboardWriteText(P, L, t, a)

A2_Notification(P, L, t, a) ==
    LET policy == Policy2(P, L, t)
    IN  IF SG_isTempAllowed(policy, t) THEN A1_Notification(P, L, t, a)
        ELSE IF IsFalse(policy, "notifications")
             THEN Block("notifications", "Notification", "throw")
        ELSE A1_Notification(P, L, t, a)

\* its original is interceptor 24 of the first block
A2_RTCPeerConnection(P, L, t, a) ==
    LET policy == Policy2(P, L, t)
    IN  IF SG_isTempAllowed(policy, t) THEN A1_RTCPeerConnectionGeo(P, L, t, a)
        ELSE IF IsFalse(policy, "webrtc")
             THEN Block("webrtc", "RTCPeerConnection", "throw")
        ELSE A1_RTCPeerConnectionGeo(P, L, t, a)

A2_eval(P, L, t, a) ==
    LET policy == Policy2(P, L, t)
    IN  IF SG_isTempAllowed(policy, t) THEN A1_eval(P, L, t, a)
        ELSE IF IsFalse(policy, "eval") THEN Block("eval", "eval", "throw")
        ELSE A1_eval(P, L, t, a)

A2_scriptSetSrc(P, L, t, a) ==
    LET policy == Policy2(P, L, t)
    IN  IF Has(policy, "scriptLoading") /\ IsFalse(policy["scriptLoading"], "external")
        THEN Block("scriptLoading", "setAttribute", "return")
        ELSE A1_scriptSetSrc(P, L, t, a)

\* Storage.prototype.setItem of the second block, keyed on storage
A2_setItem(P, L, t, a) ==
    LET policy == Policy2(P, L, t)
    IN  IF SG_isTempAllowed(policy, t) THEN A1_Storage(P, L, t, a)
        ELSE IF IsFalse(policy, "storage")
             THEN Block("storage", "setItem", "return")
        ELSE A1_Storage(P, L, t, a)

\* the cookie property the second block defines on document replaces the one
\* the first block defined: the getter is the native getter
A2_cookieGet(P, L, t, a) == Allow("native")

A2_cookieSet(P, L, t, a) ==
    LET policy == Policy2(P, L, t)
    IN  IF SG_isTempAllowed(policy, t) THEN Allow("native")
        ELSE IF IsFalse(policy, "cookies")
             THEN Block("cookie", "write", "return")
        ELSE Allow("native")

\* a second block that ends a blocked mutation with an exception in mode none
A2_domMutation_noneThrows(P, L, t, a) ==
    LET policy == Policy2(P, L, t)
    IN  IF a.url = "internal" THEN A1_domMutation(P, L, t, a)
        ELSE IF SG_isTempAllowed(policy, t) THEN A1_domMutation(P, L, t, a)
        ELSE IF Has(policy, "dom") /\ policy["dom"] = "none"
             THEN Block("dom-mod", a.kind, "throw")
        ELSE IF Has(policy, "dom") /\ policy["dom"] # "full"
             THEN Block("dom-mod", a.kind, "return")
        ELSE A1_domMutation(P, L, t, a)

A2_domMutation(P, L, t, a) ==
    LET policy == Policy2(P, L, t)
    IN  IF a.url = "internal" THEN A1_domMutation(P, L, t, a)
        ELSE IF SG_isTempAllowed(policy, t) THEN A1_domMutation(P, L, t, a)
        ELSE IF Has(policy, "dom") /\ policy["dom"] # "full"
             THEN Block("dom-mod", a.kind, "return")
        ELSE A1_domMutation(P, L, t, a)

-----------------------------------------------------------------------------
(* What the page sees once both blocks are installed                       *)

\* navigator.geolocation.getCurrentPosition(...) as page code writes it: the
\* getter runs first, and the method is read from what the getter returned
PageGeolocationRequest(P, L, t, a) ==
    LET got == A1_geolocationGetter(P, L, t, a)
    IN  IF got.how = "undefined"
        THEN [got EXCEPT !.how = "TypeError: property of undefined"]
        ELSE [got EXCEPT !.how = "TypeError: not a function"]

PageApi(P, L, t, a) ==
    CASE a.api = "fetch" -> A2_fetch(P, L, t, a)
      [] a.api = "xhr.send" -> A2_xhrSend(P, L, t, a)
      [] a.api = "WebSocket" -> A2_WebSocket(P, L, t, a)
      [] a.api = "sendBeacon" -> A2_sendBeacon(P, L, t, a)
      [] a.api = "navigator.geolocation" -> A1_geolocationGetter(P, L, t, a)
      [] a.api = "geolocation request" -> PageGeolocationRequest(P, L, t, a)
      [] a.api = "getCurrentPosition" -> A1_getCurrentPosition(P, L, t, a)
      [] a.api = "watchPosition" -> A1_watchPosition(P, L, t, a)
      [] a.api = "permissions.query" -> A1_permissionsQuery(P, L, t, a)
      [] a.api = "getUserMedia" -> A2_getUserMedia(P, L, t, a)
      [] a.api = "enumerateDevices" -> A1_enumerateDevices(P, L, t, a)
      [] a.api = "clipboard.readText" -> A2_clipboardReadText(P, L, t, a)
      [] a.api = "clipboard.writeText" -> A2_clipboardWriteText(P, L, t, a)
      [] a.api = "Notification" -> A2_Notification(P, L, t, a)
      [] a.api = "RTCPeerConnection" -> A2_RTCPeerConnection(P, L, t, a)
      [] a.api = "eval" -> A2_eval(P, L, t, a)
      [] a.api = "Function" -> A1_FunctionConstructor(P, L, t, a)
      [] a.api = "script.setAttribute" -> A2_scriptSetSrc(P, L, t, a)
      [] a.api = "devicemotion" -> A1_devicemotion(P, L, t, a)
      [] a.api = "deviceorientation" -> A1_deviceorientation(P, L, t, a)
      [] a.api = "image" -> A1_imageLoading(P, L, t, a)
      [] a.api = "style" -> A1_styleLoading(P, L, t, a)
      [] a.api = "indexedDB.open" -> A1_indexedDBOpen(P, L, t, a)
      [] a.api = "setItem" -> A2_setItem(P, L, t, a)
      [] a.api \in {"getItem", "removeItem", "clear"} -> A1_Storage(P, L, t, a)
      [] a.api = "cookie.get" -> A2_cookieGet(P, L, t, a)
      [] a.api = "cookie.set" -> A2_cookieSet(P, L, t, a)
      [] a.api \in {"appendChild", "innerHTML"} -> A2_domMutation(P, L, t, a)
      [] a.api = "addEventListener" -> A1_addEventListener(P, L, t, a)

Call(api, url, kind) == [api |-> api, url |-> url, kind |-> kind]

\* the calls the page makes
Calls ==
    {Call("fetch", "page", k) : k \in {"absent", "object", "null", "string"}}
    \cup {Call("fetch", "internal", "string")}
    \cup {Call(api, u, "-") : api \in {"xhr.send", "WebSocket"}, u \in {"page", "internal"}}
    \cup {Call(api, "page", "-") :
            api \in {"sendBeacon", "navigator.geolocation", "geolocation request",
                     "getCurrentPosition", "watchPosition", "clipboard.readText",
                     "clipboard.writeText", "Notification", "RTCPeerConnection", "eval",
                     "Function", "script.setAttribute", "devicemotion",
                     "deviceorientation", "indexedDB.open", "cookie.get", "cookie.set"}}
    \cup {Call("permissions.query", "page", k) :
            k \in {"geolocation", "camera", "microphone", "midi"}}
    \cup {Call("getUserMedia", "page", k) :
            k \in {"undefined", "video", "audio", "both", "neither"}}
    \cup {Call("enumerateDevices", "page", k) :
            k \in {"camera+microphone", "camera", "none"}}
    \cup {Call("image", "page", k) : k \in {"Image.src", "img.src", "srcset", "setAttribute"}}
    \cup {Call("style", "page", k) :
            k \in {"link.setAttribute", "style.textContent", "link.href", "inlineStyle"}}
    \cup {Call(api, "page", k) : api \in {"setItem", "getItem", "removeItem", "clear"},
                                 k \in {"localStorage", "sessionStorage"}}
    \cup {Call(api, "page", api) : api \in {"appendChild", "innerHTML"}}
    \cup {Call("addEventListener", "page", k) :
            k \in {"devicemotion", "deviceorientation", "orientationchange", "click"}}

-----------------------------------------------------------------------------
(* The catch clauses.  The agent runs in the world of the page and calls   *)
(* Object.assign and Date.now through the globals of the page: when they    *)
(* throw, SG_getDomainPolicy throws inside the try block of an interceptor, *)
(* before any decision, and the interceptor goes on from its catch clause.  *)

\* fetch, first block: the error is logged as allowed, then origFetch.apply
\* with the arguments as the caller gave them
A1_fetch_catch(P, L, t, a) ==
    IF a.url = "internal" THEN A1_fetch(P, L, t, a)
    ELSE [NativeFetch(a.kind) EXCEPT
            !.logs = <<SG_createLog("error", "allowed", "fetch wrapper error")>>]

\* fetch, second block: its origFetch is the interceptor of the first block
A2_fetch_catch(P, L, t, a) ==
    IF a.url = "internal" THEN A1_fetch_catch(P, L, t, a)
    ELSE [A1_fetch_catch(P, L, t, a) EXCEPT
            !.logs = <<SG_createLog("error", "allowed", "fetch wrapper error")>> \o @]

\* catch (e) { throw e; }: the error of the resolution goes to the caller
A2_Notification_catch(P, L, t, a) ==
    [decision |-> "blocked", logs |-> <<>>, how |-> "throw: internal error"]

\* the calls whose catch clauses are above
CatchCalls ==
    {a \in Calls : a.api \in {"fetch", "navigator.geolocation", "geolocation request",
                              "getCurrentPosition", "watchPosition", "clipboard.readText",
                              "clipboard.writeText", "Notification"}}

\* what the page sees when SG_getDomainPolicy throws
PageApi_catch(P, L, t, a) ==
    CASE a.api = "fetch" -> A2_fetch_catch(P, L, t, a)
      \* 4c: catch (e) {} and then return this.__geolocation__ || {}
      [] a.api = "navigator.geolocation" -> Allow("empty object")
      \* the method is read from the {} the getter returned
      [] a.api = "geolocation request" -> Allow("TypeError: not a function")
      \* catch (e) {} and then origGetPosition.call(this, success, error, options)
      [] a.api = "getCurrentPosition" -> Allow("native")
      \* catch (e) {} and then origWatchPosition.call(this, success, error, options)
      [] a.api = "watchPosition" -> Allow("native")
      \* in both blocks: catch (e) {} and then origReadText.call(this)
      [] a.api = "clipboard.readText" -> Allow("native")
      \* in both blocks: catch (e) {} and then origWriteText.call(this, text)
      [] a.api = "clipboard.writeText" -> Allow("native")
      [] a.api = "Notification" -> A2_Notification_catch(P, L, t, a)

-----------------------------------------------------------------------------
(* Inputs                                                                  *)

\* window.location of a page: the three keys SG_getDomainPolicy looks up
LocA == [hostname |-> "a.test", host |-> "a.test:8080", origin |-> "http://a.test:8080"]
LocB == [hostname |-> "b.test", host |-> "b.test", origin |-> "https://b.test"]
Locations == {LocA, LocB}

\* the keys callers of policies.js pass as domain
DomainKeys == {"a.test", "a.test:8080", "default"}

\* the hostname of the active tab of the popup
Hostnames == {"a.test", "b.test"}

PresetIds == {"balanced", "permissive", "nope"}

Durations == {1, ALLOW_ONCE_MINUTES}

\* what savePolicy reads from the 19 controls of the popup
UIPolicy(net, domMode, b, ext) ==
    [network |-> net, storage |-> b, dom |-> domMode, cookies |-> b, eval |-> b,
     geolocation |-> b, camera |-> b, microphone |-> b, clipboard |-> b,
     notifications |-> b, webrtc |-> b,
     scriptLoading |-> [inline |-> b, external |-> ext],
     accelerometer |-> b, imageLoading |-> b, styleLoading |-> b,
     localStorage |-> b, sessionStorage |-> b, indexeddb |-> b,
     functionConstructor |-> b]

UIAllOff == UIPolicy(Net4(FALSE, FALSE, FALSE, FALSE), "none", FALSE, FALSE)
UIFetchOnly == UIPolicy(Net4(TRUE, FALSE, FALSE, FALSE), "readonly", FALSE, TRUE)
UIDocs == {UIAllOff, UIFetchOnly}

\* documents a caller of updateDomainPolicy passes: an override that names one
\* network sub-field, and one that names two fields
PartialNetDoc == [network |-> NetObject([websocket |-> FALSE])]
SparseDoc == [cookies |-> TRUE, dom |-> "full"]
UpdateDocs == {PartialNetDoc, SparseDoc}

-----------------------------------------------------------------------------
(* Log buffer: background.js.  A record is the number of its arrival: the   *)
(* larger, the newer.  A call of chrome.storage.local is an entry of        *)
(* storageQ: the storage serves the calls in the order they were made, and  *)
(* the code after an await runs in the order the calls were served.         *)

MAX_LOGS == 1000
MAX_BUFFER == 200

MaxEnqueue == 3
MaxFlights == 2

\* array.length = n when array.length > n
Truncate(array, n) == IF Len(array) > n THEN SubSeq(array, 1, n) ELSE array

\* hi, hi - 1, ..., lo
Desc(hi, lo) == [i \in 1..(hi - lo + 1) |-> hi - i + 1]

\* a bufferLog that adds the record at the end
bufferLog_push(buffer, logObj) == Truncate(buffer \o <<logObj>>, MAX_BUFFER)

\* bufferLog: unshift, then the length is cut to MAX_BUFFER
bufferLog(buffer, logObj) == Truncate(<<logObj>> \o buffer, MAX_BUFFER)

\* a flushLogs that adds the batch after the persisted records
flushMerge_append(buffer, existingLogs) == Truncate(existingLogs \o buffer, MAX_LOGS)

\* flushLogs: logBuffer.concat(existingLogs), then the length is cut to MAX_LOGS
flushMerge(buffer, existingLogs) == Truncate(buffer \o existingLogs, MAX_LOGS)

StorageCall(kind, value) == [kind |-> kind, served |-> FALSE, ok |-> TRUE, value |-> value]

\* no SG_CLEAR_LOGS received, no SG_GET_LOGS answered
NoClear == [at |-> 0, state |-> "none"]
NoResponse == [answered |-> FALSE, logs |-> <<>>]

\* nothing buffered, nothing persisted, no timer
LogIdle ==
    /\ logBuffer = <<>>
    /\ flushTimer = FALSE
    /\ scriptguard_logs = <<>>
    /\ storageQ = <<>>
    /\ seq = 1
    /\ timers = 0
    /\ clearRequest = NoClear
    /\ logsResponse = NoResponse

\* the buffer one record short of MAX_BUFFER with the timer armed, over a
\* persisted log two records short of MAX_LOGS
LogNearlyFull ==
    /\ logBuffer = Desc(0, 2 - MAX_BUFFER)
    /\ flushTimer = TRUE
    /\ scriptguard_logs = Desc(1 - MAX_BUFFER, 4 - MAX_BUFFER - MAX_LOGS)
    /\ storageQ = <<>>
    /\ seq = 1
    /\ timers = 1
    /\ clearRequest = NoClear
    /\ logsResponse = NoResponse

policyVars == <<store, presetsSet, cache, inbox, loc, now, nops, last>>

\* the extension contexts that mutate the policy record
Contexts == {"popup", "options"}

\* a context that is in the middle of no mutation
IdleContext ==
    [pc |-> "idle", op |-> "none", key |-> "", arg |-> "", policies |-> EmptyObj,
     policy |-> EmptyObj]

NoMutation == contexts = [c \in Contexts |-> IdleContext]

\* no cookie action recorded
NoHistory == scriptguard_cookie_actions = <<>> /\ persisted = {store}

\* the relay at rest and a page whose agent has not run
RelayIdle ==
    /\ agent = [ready |-> FALSE, missed |-> FALSE]
    /\ windowQ = <<>>
    /\ relayReads = <<>>
    /\ changed = 0

\* a bufferLog that arms no timer
armTimer_never(timer, pending) == pending

\* a bufferLog that arms a timer on every record
armTimer_always(timer, pending) == pending + 1

\* bufferLog: if (!flushTimer) flushTimer = setTimeout(...); the callbacks that
\* are pending after it
armTimer(timer, pending) == IF ~timer THEN pending + 1 ELSE pending

\* a flushLogs that leaves the buffer as it is
afterFlush_keeps(buffer, c) == buffer

\* a flushLogs that empties the buffer in a finally clause
afterFlush_finally(buffer, c) == IF c.kind = "set" THEN <<>> ELSE buffer

\* flushLogs after an await: logBuffer = [] follows the set in the try block,
\* and the catch clause only writes to the console
afterFlush(buffer, c) == IF c.kind = "set" /\ c.ok THEN <<>> ELSE buffer

\* what the steps of the background leave alone
notLog == <<policyVars, relayVars, contexts, histVars>>

\* onMessage, case 'SG_LOG': bufferLog(message.payload)
OnLogMessage ==
    /\ seq <= MaxEnqueue
    /\ logBuffer' = bufferLog(logBuffer, seq)
    /\ timers' = armTimer(flushTimer, timers)
    /\ flushTimer' = TRUE
    /\ seq' = seq + 1
    /\ UNCHANGED <<scriptguard_logs, storageQ, clearRequest, logsResponse, notLog>>

\* the callback of a timer: flushTimer = null, then flushLogs() up to its
\* first await
TimerFires ==
    /\ timers > 0
    /\ Len(storageQ) < MaxFlights
    /\ timers' = timers - 1
    /\ flushTimer' = FALSE
    /\ storageQ' = IF logBuffer = <<>> THEN storageQ
                   ELSE Append(storageQ, StorageCall("get", <<>>))
    /\ UNCHANGED <<logBuffer, scriptguard_logs, seq, clearRequest, logsResponse, notLog>>

\* onMessage, case 'SG_CLEAR_LOGS', up to the then; the options page sends
\* the next one after the response
OnClearLogs ==
    /\ Len(storageQ) < MaxFlights
    /\ clearRequest.state # "pending"
    /\ storageQ' = Append(storageQ, StorageCall("clear", <<>>))
    /\ clearRequest' = [at |-> seq, state |-> "pending"]
    /\ UNCHANGED <<logBuffer, flushTimer, scriptguard_logs, seq, timers, logsResponse,
                   notLog>>

\* onMessage, case 'SG_GET_LOGS', up to the then
OnGetLogs ==
    /\ Len(storageQ) < MaxFlights
    /\ storageQ' = Append(storageQ, StorageCall("read", <<>>))
    /\ UNCHANGED <<logBuffer, flushTimer, scriptguard_logs, seq, timers, clearRequest,
                   logsResponse, notLog>>

\* the first call the storage has not served yet
Unserved == {i \in 1..Len(storageQ) :
                ~storageQ[i].served /\ \A j \in 1..(i - 1) : storageQ[j].served}

\* chrome.storage.local serves a call; ok is FALSE when the call fails
StorageServes(ok) ==
    \E i \in Unserved :
        LET c == storageQ[i]
        IN  /\ storageQ' = [storageQ EXCEPT ![i] =
                    [c EXCEPT !.served = TRUE, !.ok = ok,
                              !.value = IF c.kind \in {"get", "read"} /\ ok
                                        THEN scriptguard_logs ELSE c.value]]
            /\ scriptguard_logs' =
                    IF ~ok THEN scriptguard_logs
                    ELSE IF c.kind = "set" THEN c.value
                    ELSE IF c.kind = "clear" THEN <<>>
                    ELSE scriptguard_logs
            /\ UNCHANGED <<logBuffer, flushTimer, seq, timers, clearRequest, logsResponse,
                           notLog>>

\* the code after the await of the call at the head of storageQ: flushLogs after
\* get, flushLogs after set (or its catch), the then of SG_CLEAR_LOGS and of
\* SG_GET_LOGS, which no code runs when the call has failed
AfterAwait ==
    /\ storageQ # <<>>
    /\ Head(storageQ).served
    /\ LET c == Head(storageQ)
       IN  /\ storageQ' = IF c.kind = "get" /\ c.ok
                          THEN Append(Tail(storageQ),
                                      StorageCall("set", flushMerge(logBuffer, c.value)))
                          ELSE Tail(storageQ)
           /\ logBuffer' = afterFlush(logBuffer, c)
           /\ clearRequest' = IF c.kind = "clear"
                              THEN [clearRequest EXCEPT
                                        !.state = IF c.ok THEN "ok" ELSE "no response"]
                              ELSE clearRequest
           /\ logsResponse' = IF c.kind = "read" /\ c.ok
                              THEN [answered |-> TRUE, logs |-> c.value]
                              ELSE logsResponse
    /\ UNCHANGED <<flushTimer, scriptguard_logs, seq, timers, notLog>>

InitLog ==
    /\ store = NoRecord
    /\ presetsSet = FALSE
    /\ cache = EmptyObj
    /\ inbox = <<>>
    /\ loc = [hostname |-> "a.test", host |-> "a.test:8080", origin |-> "http://a.test:8080"]
    /\ now = 0
    /\ nops = 0
    /\ last = [op |-> "none", key |-> "", arg |-> "", err |-> "none",
               res |-> [decision |-> "none", logs |-> <<>>, how |-> "none"]]
    /\ (LogIdle \/ LogNearlyFull)
    /\ RelayIdle
    /\ NoMutation
    /\ NoHistory

NextLog ==
    \/ OnLogMessage
    \/ TimerFires
    \/ OnClearLogs
    \/ OnGetLogs
    \/ \E ok \in BOOLEAN : StorageServes(ok)
    \/ AfterAwait

SpecLog == InitLog /\ [][NextLog]_vars

-----------------------------------------------------------------------------
(* Risk classifier: utils/cookie_classifier.js.  A string is the sequence   *)
(* of its characters.  Times are in minutes, as the clock is.               *)

UpperCase ==
    <<"A", "B", "C", "D", "E", "F", "G", "H", "I", "J", "K", "L", "M", "N", "O", "P", "Q",
      "R", "S", "T", "U", "V", "W", "X", "Y", "Z">>
LowerCase ==
    <<"a", "b", "c", "d", "e", "f", "g", "h", "i", "j", "k", "l", "m", "n", "o", "p", "q",
      "r", "s", "t", "u", "v", "w", "x", "y", "z">>

\* the flag i of the patterns: a character compares as its lower case
ToLowerCase(ch) ==
    IF \E i \in 1..Len(UpperCase) : UpperCase[i] = ch
    THEN LowerCase[CHOOSE i \in 1..Len(UpperCase) : UpperCase[i] = ch]
    ELSE ch

\* /^(p1|p2|...)/i.test(name): the alternatives of the pattern, as written
RegexTest(alternatives, name) ==
    \E p \in alternatives :
        /\ Len(name) >= Len(p)
        /\ \A i \in 1..Len(p) : ToLowerCase(name[i]) = p[i]

\* string.endsWith(suffix)
EndsWith(string, suffix) ==
    /\ Len(string) >= Len(suffix)
    /\ \A i \in 1..Len(suffix) : string[Len(string) - Len(suffix) + i] = suffix[i]

TRACKER_PATTERNS ==
    {<<"_", "g", "a">>, <<"_", "g", "a", "t">>, <<"_", "g", "i", "d">>,
     <<"t", "r", "a", "c", "k">>, <<"u", "t", "m">>, <<"f", "b", "p">>,
     <<"_", "_", "h", "s", "s", "c">>, <<"_", "_", "h", "s", "s", "r", "c">>,
     <<"_", "_", "h", "s", "t", "c">>, <<"t", "w", "k", "_">>, <<"a", "d", "s">>,
     <<"a", "d", "_">>, <<"d", "o", "u", "b", "l", "e", "c", "l", "i", "c", "k">>,
     <<"p", "a", "g", "e", "a", "d">>, <<"a", "d", "x">>,
     <<"a", "d", "v", "e", "r", "t", "i", "s">>,
     <<"m", "i", "x", "p", "a", "n", "e", "l">>,
     <<"a", "m", "p", "l", "i", "t", "u", "d", "e">>,
     <<"s", "e", "g", "m", "e", "n", "t">>, <<"d", "r", "i", "f", "t">>,
     <<"i", "n", "t", "e", "r", "c", "o", "m">>,
     <<"d", "a", "t", "a", "d", "o", "g", "h", "q">>}

ANALYTICS_PATTERNS ==
    {<<"_", "g", "a">>, <<"_", "g", "a", "t">>, <<"_", "g", "i", "d">>,
     <<"a", "n", "a", "l", "y", "t", "i", "c", "s">>, <<"t", "r", "a", "c", "k">>,
     <<"m", "i", "x", "p", "a", "n", "e", "l">>,
     <<"a", "m", "p", "l", "i", "t", "u", "d", "e">>,
     <<"s", "e", "g", "m", "e", "n", "t">>, <<"h", "e", "a", "p">>,
     <<"d", "a", "t", "a", "d", "o", "g">>, <<"g", "t", "a", "g">>,
     <<"w", "i", "s", "t", "i", "a">>,
     <<"g", "o", "o", "g", "l", "e", "_", "a", "n", "a", "l", "y", "t", "i", "c", "s">>}

ADS_PATTERNS ==
    {<<"a", "d", "s">>, <<"a", "d", "_">>, <<"f", "b", "p">>, <<"a", "n", "j">>,
     <<"d", "p", "m">>, <<"c">>, <<"u", "u", "i", "d">>,
     <<"a", "d", "v", "e", "r", "t", "i", "s", "i", "n", "g">>,
     <<"a", "d", "t", "e", "c", "h">>, <<"d", "f", "p">>, <<"g", "o", "o", "g">>,
     <<"d", "o", "u", "b", "l", "e", "c", "l", "i", "c", "k">>,
     <<"c", "r", "i", "t", "e", "o">>, <<"t", "a", "b", "o", "o", "l", "a">>,
     <<"o", "u", "t", "b", "r", "a", "i", "n">>}

ESSENTIAL_PATTERNS ==
    {<<"s", "e", "s", "s", "i", "o", "n">>, <<"c", "s", "r", "f">>,
     <<"t", "o", "k", "e", "n">>, <<"a", "u", "t", "h">>, <<"l", "o", "g", "i", "n">>,
     <<"s", "i", "d">>, <<"s", "e", "s", "s", "i", "o", "n", "i", "d">>,
     <<"x", "s", "r", "f">>, <<"n", "o", "n", "c", "e">>, <<"s", "t", "a", "t", "e">>,
     <<"c", "o", "d", "e", "_", "v", "e", "r", "i", "f", "i", "e", "r">>,
     <<"u", "s", "e", "r">>, <<"j", "s", "e", "s", "s", "i", "o", "n", "i", "d">>,
     <<"p", "h", "p", "s", "e", "s", "s", "i", "d">>}

\* 1000 * 60 * 60 * 24 ms
DAY == 1440

\* isThirdPartyCookie; requestUrl is the empty string, a string new URL rejects,
\* or a URL with its hostname; domain is the empty sequence when the cookie has none
isThirdPartyCookie(cookie, requestUrl) ==
    IF requestUrl.kind = "empty" \/ cookie.domain = <<>> THEN FALSE
    ELSE IF requestUrl.kind = "invalid" THEN FALSE
    ELSE LET cookieDomain == IF Head(cookie.domain) = "." THEN Tail(cookie.domain)
                             ELSE cookie.domain
             reqDomain == requestUrl.hostname
         IN  ~EndsWith(reqDomain, cookieDomain)

\* isPersistent: expirationDate is 0 when the cookie has none (a session cookie)
isPersistent(cookie, t) ==
    IF cookie.expirationDate = 0 THEN FALSE
    ELSE cookie.expirationDate - t > DAY

\* getExpiryDescription: the number and the unit
ExpiryText(n, unit) == [n |-> n, unit |-> unit]

getExpiryDescription(cookie, t) ==
    LET diff == cookie.expirationDate - t
    IN  IF cookie.expirationDate = 0 THEN ExpiryText(0, "session")
        ELSE IF diff < DAY THEN ExpiryText(0, "less than a day")
        ELSE IF diff < 7 * DAY THEN ExpiryText(diff \div DAY, "days")
        ELSE IF diff < 30 * DAY THEN ExpiryText(diff \div (7 * DAY), "weeks")
        ELSE IF diff < 365 * DAY THEN ExpiryText(diff \div (30 * DAY), "months")
        ELSE ExpiryText(diff \div (365 * DAY), "years")

\* classifyCategory with the ad pattern tested before the other patterns
classifyCategory_adsFirst(cookie, t) ==
    IF RegexTest(ADS_PATTERNS, cookie.name)
    THEN [category |-> "ADS", reason |-> "Name matches ad/personalization pattern."]
    ELSE IF RegexTest(ESSENTIAL_PATTERNS, cookie.name)
    THEN [category |-> "ESSENTIAL", reason |-> "Contains login or session-related keywords."]
    ELSE IF RegexTest(TRACKER_PATTERNS, cookie.name)
    THEN [category |-> "TRACKER", reason |-> "Name matches known tracker patterns."]
    ELSE IF RegexTest(ANALYTICS_PATTERNS, cookie.name)
    THEN [category |-> "ANALYTICS", reason |-> "Name matches analytics service pattern."]
    ELSE IF isPersistent(cookie, t)
    THEN [category |-> "REMEMBER_ME", reason |-> "Persistent non-tracking cookie."]
    ELSE [category |-> "ESSENTIAL",
          reason |-> "Session cookie with no tracking indicators."]

\* classifyCategory: cookie.name || '' is the empty sequence when there is no name
classifyCategory(cookie, t) ==
    IF RegexTest(ESSENTIAL_PATTERNS, cookie.name)
    THEN [category |-> "ESSENTIAL", reason |-> "Contains login or session-related keywords."]
    ELSE IF RegexTest(TRACKER_PATTERNS, cookie.name)
    THEN [category |-> "TRACKER", reason |-> "Name matches known tracker patterns."]
    ELSE IF RegexTest(ANALYTICS_PATTERNS, cookie.name)
    THEN [category |-> "ANALYTICS", reason |-> "Name matches analytics service pattern."]
    ELSE IF RegexTest(ADS_PATTERNS, cookie.name)
    THEN [category |-> "ADS", reason |-> "Name matches ad/personalization pattern."]
    ELSE IF isPersistent(cookie, t)
    THEN [category |-> "REMEMBER_ME", reason |-> "Persistent non-tracking cookie."]
    ELSE [category |-> "ESSENTIAL",
          reason |-> "Session cookie with no tracking indicators."]

Max(a, b) == IF a >= b THEN a ELSE b

\* calculateRisk without the floor at 0
calculateRisk_unfloored(cookie, requestUrl, t) ==
    LET thirdParty == isThirdPartyCookie(cookie, requestUrl)
        persistent == isPersistent(cookie, t)
        tracker == RegexTest(TRACKER_PATTERNS, cookie.name)
        sum == (IF thirdParty THEN 3 ELSE 0) + (IF persistent THEN 2 ELSE 0)
               + (IF tracker THEN 2 ELSE 0)
               - (IF cookie.httpOnly THEN 2 ELSE 0) - (IF cookie.secure THEN 1 ELSE 0)
        score == sum
    IN  [score |-> score,
         riskLevel |-> IF score <= 2 THEN "LOW" ELSE IF score <= 5 THEN "MEDIUM" ELSE "HIGH",
         reasons |->
            (IF thirdParty
             THEN <<[text |-> "Set by a different domain", expiry |-> ExpiryText(0, "")]>>
             ELSE <<>>)
            \o (IF persistent
                THEN <<[text |-> "Stored for", expiry |-> getExpiryDescription(cookie, t)]>>
                ELSE <<>>)
            \o (IF tracker
                THEN <<[text |-> "Name matches tracker patterns",
                        expiry |-> ExpiryText(0, "")]>>
                ELSE <<>>)]

\* calculateRisk: the score, Math.max(0, score), and the level it maps to
calculateRisk(cookie, requestUrl, t) ==
    LET thirdParty == isThirdPartyCookie(cookie, requestUrl)
        persistent == isPersistent(cookie, t)
        tracker == RegexTest(TRACKER_PATTERNS, cookie.name)
        sum == (IF thirdParty THEN 3 ELSE 0) + (IF persistent THEN 2 ELSE 0)
               + (IF tracker THEN 2 ELSE 0)
               - (IF cookie.httpOnly THEN 2 ELSE 0) - (IF cookie.secure THEN 1 ELSE 0)
        score == Max(0, sum)
    IN  [score |-> score,
         riskLevel |-> IF score <= 2 THEN "LOW" ELSE IF score <= 5 THEN "MEDIUM" ELSE "HIGH",
         reasons |->
            (IF thirdParty
             THEN <<[text |-> "Set by a different domain", expiry |-> ExpiryText(0, "")]>>
             ELSE <<>>)
            \o (IF persistent
                THEN <<[text |-> "Stored for", expiry |-> getExpiryDescription(cookie, t)]>>
                ELSE <<>>)
            \o (IF tracker
                THEN <<[text |-> "Name matches tracker patterns",
                        expiry |-> ExpiryText(0, "")]>>
                ELSE <<>>)]

\* classify: the cookie, ...categoryResult, ...riskResult
classify(cookie, requestUrl, t) ==
    LET categoryResult == classifyCategory(cookie, t)
        riskResult == calculateRisk(cookie, requestUrl, t)
    IN  [name |-> cookie.name, domain |-> cookie.domain,
         expirationDate |-> cookie.expirationDate,
         category |-> categoryResult.category, reason |-> categoryResult.reason,
         score |-> riskResult.score, riskLevel |-> riskResult.riskLevel,
         reasons |-> riskResult.reasons]

\* cookie names, cookie domains and page hosts


\* theme, _ga, SID, ads_x, c_user, gtag, user_track, csrf, google_analytics and
\* the empty name
CookieNames ==
    {<<"t", "h", "e", "m", "e">>,
     <<"c", "s", "r", "f">>,
     <<"g", "o", "o", "g", "l", "e", "_", "a", "n", "a", "l", "y", "t", "i", "c", "s">>,
     <<"_", "g", "a">>,
     <<"S", "I", "D">>,
     <<"a", "d", "s", "_", "x">>,
     <<"c", "_", "u", "s", "e", "r">>,
     <<"g", "t", "a", "g">>,
     <<"u", "s", "e", "r", "_", "t", "r", "a", "c", "k">>,
     <<>>}
\* .a.test, a.test, b.test and no domain
CookieDomains ==
    {<<".", "a", ".", "t", "e", "s", "t">>,
     <<"a", ".", "t", "e", "s", "t">>,
     <<"b", ".", "t", "e", "s", "t">>,
     <<>>}
Expirations == {0, DAY + 2, 40 * DAY}

Cookies ==
    [name : CookieNames, domain : CookieDomains, expirationDate : Expirations,
     httpOnly : BOOLEAN, secure : BOOLEAN]

RequestUrls ==
    {[kind |-> "empty", hostname |-> <<>>], [kind |-> "invalid", hostname |-> <<>>]}
    \cup {[kind |-> "url", hostname |-> h] : h \in {<<"a", ".", "t", "e", "s", "t">>,
                   <<"s", "u", "b", ".", "a", ".", "t", "e", "s", "t">>,
                   <<"n", "o", "t", "a", ".", "t", "e", "s", "t">>,
                   <<"b", ".", "t", "e", "s", "t">>}}

-----------------------------------------------------------------------------
(* State machine                                                           *)

NoResult == [decision |-> "none", logs |-> <<>>, how |-> "none"]

Did(op, key, arg, err, res) ==
    [op |-> op, key |-> key, arg |-> arg, err |-> err, res |-> res]

NoOp == Did("none", "", "", "none", NoResult)

\* policies.js SG_initPresets
InitPresets ==
    /\ ~presetsSet
    /\ presetsSet' = TRUE
    /\ last' = Did("SG_initPresets", "", "", "none", NoResult)
    /\ UNCHANGED <<store, cache, inbox, loc, now, nops>>
    /\ UNCHANGED aux

\* policies.js applyPreset
ApplyPreset(domain, presetName) ==
    LET r == applyPreset(store, presetsSet, domain, presetName)
    IN  /\ nops < MaxOps
        /\ store' = r.policies
        /\ nops' = nops + 1
        /\ last' = Did("applyPreset", domain, presetName, r.err, NoResult)
        /\ UNCHANGED <<presetsSet, cache, inbox, loc, now>>
        /\ persisted' = persisted \cup {store'}
        /\ UNCHANGED auxOfWrite

\* popup/popup.js applyPreset
PopupApplyPreset(hostname, presetId) ==
    LET r == popup_applyPreset(store, presetsSet, hostname, presetId)
    IN  /\ nops < MaxOps
        /\ store' = r.policies
        /\ nops' = nops + 1
        /\ last' = Did("popup.applyPreset", hostname, presetId, r.err, NoResult)
        /\ UNCHANGED <<presetsSet, cache, inbox, loc, now>>
        /\ persisted' = persisted \cup {store'}
        /\ UNCHANGED auxOfWrite

\* policies.js updateDomainPolicy
UpdateDomainPolicy(domain, policy) ==
    /\ nops < MaxOps
    /\ store' = updateDomainPolicy(store, domain, policy)
    /\ nops' = nops + 1
    /\ last' = Did("updateDomainPolicy", domain, policy, "none", NoResult)
    /\ UNCHANGED <<presetsSet, cache, inbox, loc, now>>
    /\ persisted' = persisted \cup {store'}
    /\ UNCHANGED auxOfWrite

\* popup/popup.js savePolicy
SavePolicy(hostname, ui) ==
    /\ nops < MaxOps
    /\ store' = savePolicy(store, hostname, ui)
    /\ nops' = nops + 1
    /\ last' = Did("savePolicy", hostname, ui, "none", NoResult)
    /\ UNCHANGED <<presetsSet, cache, inbox, loc, now>>
    /\ persisted' = persisted \cup {store'}
    /\ UNCHANGED auxOfWrite

\* policies.js setAllowOnce
SetAllowOnce(domain, durationMinutes) ==
    /\ nops < MaxOps
    /\ store' = setAllowOnce(store, domain, durationMinutes, now)
    /\ nops' = nops + 1
    /\ last' = Did("setAllowOnce", domain, now + durationMinutes, "none", NoResult)
    /\ UNCHANGED <<presetsSet, cache, inbox, loc, now>>
    /\ persisted' = persisted \cup {store'}
    /\ UNCHANGED auxOfWrite

\* popup/popup.js setAllowOnce
PopupSetAllowOnce(hostname) ==
    /\ nops < MaxOps
    /\ store' = popup_setAllowOnce(store, hostname, now)
    /\ nops' = nops + 1
    /\ last' = Did("popup.setAllowOnce", hostname, now + ALLOW_ONCE_MINUTES, "none",
                   NoResult)
    /\ UNCHANGED <<presetsSet, cache, inbox, loc, now>>
    /\ persisted' = persisted \cup {store'}
    /\ UNCHANGED auxOfWrite

\* the clock
Tick ==
    /\ now < MaxTime
    /\ now' = now + 1
    /\ last' = Did("tick", "", "", "none", NoResult)
    /\ UNCHANGED <<store, presetsSet, cache, inbox, loc, nops>>
    /\ UNCHANGED aux

\* content script sendPoliciesToPage: reads the record and posts it to the page
SendPoliciesToPage ==
    /\ Len(inbox) < MaxInbox
    /\ inbox' = Append(inbox, store)
    /\ last' = Did("sendPoliciesToPage", "", "", "none", NoResult)
    /\ UNCHANGED <<store, presetsSet, cache, loc, now, nops>>
    /\ UNCHANGED aux

\* page agent, the message listeners of both blocks on __SG_INIT_POLICIES__
OnPolicyMessage ==
    /\ inbox # <<>>
    /\ cache' = Head(inbox)
    /\ inbox' = Tail(inbox)
    /\ last' = Did("message", "__SG_INIT_POLICIES__", "", "none",
                   [decision |-> "none",
                    logs |-> <<SG_createLog("agent", "allowed", "policies_updated"),
                               SG_createLog("agent", "allowed", "policies_updated")>>,
                    how |-> "policies updated"])
    /\ UNCHANGED <<store, presetsSet, loc, now, nops>>
    /\ UNCHANGED aux

\* page agent: SG_getDomainPolicy(location.hostname), the first statement of
\* every interceptor, in the first and in the second block
ResolveDomainPolicy ==
    /\ last.op # "SG_getDomainPolicy"
    /\ last' = Did("SG_getDomainPolicy", loc.hostname, "", "none",
                   [first |-> Policy1(cache, loc, now),
                    second |-> Policy2(cache, loc, now)])
    /\ UNCHANGED <<store, presetsSet, cache, inbox, loc, now, nops>>
    /\ UNCHANGED aux

\* a call whose effect on the page is that the override it used is used up
Invoke_consuming(a) ==
    LET key == CHOOSE k \in {loc.hostname, loc.host, loc.origin, "default"} :
                    k = "default" \/ Has(cache, k)
        doc == [f \in DOMAIN cache[key] \ {"_allowOnce"} |-> cache[key][f]]
    IN  /\ last.op \notin {"invoke", "invoke again"}
        /\ last' = Did("invoke", a.api, a, "none", PageApi(cache, loc, now, a))
        /\ cache' = IF Has(cache, key) THEN Put(cache, key, doc) ELSE cache
        /\ UNCHANGED <<store, presetsSet, inbox, loc, now, nops>>
        /\ UNCHANGED aux

\* page code calls an intercepted API.  A call changes nothing but last, so a
\* call made right after a call reaches no state that the call alone does not
\* reach: calls are taken from the states another step has reached
Invoke(a) ==
    /\ last.op \notin {"invoke", "invoke again"}
    /\ last' = Did("invoke", a.api, a, "none", PageApi(cache, loc, now, a))
    /\ UNCHANGED <<store, presetsSet, cache, inbox, loc, now, nops>>
    /\ UNCHANGED aux

\* page code makes the call it has just made once more, with the same arguments
InvokeAgain ==
    /\ last.op = "invoke"
    /\ last' = Did("invoke again", last.key, last.arg, "none",
                   PageApi(cache, loc, now, last.arg))
    /\ UNCHANGED <<store, presetsSet, cache, inbox, loc, now, nops>>
    /\ UNCHANGED aux

-----------------------------------------------------------------------------
(* The Policy Store on its own: every mutation, and the clock              *)

InitStore ==
    /\ store \in {NoRecord, InstalledRecord, InitDefaultRecord}
    /\ presetsSet = FALSE
    /\ cache = EmptyObj
    /\ inbox = <<>>
    /\ loc = LocA
    /\ now = 0
    /\ nops = 0
    /\ last = NoOp
    /\ LogIdle
    /\ RelayIdle
    /\ NoMutation
    /\ NoHistory

NextStore ==
    \/ InitPresets
    \/ \E domain \in DomainKeys, presetName \in PresetIds : ApplyPreset(domain, presetName)
    \/ \E hostname \in Hostnames, presetId \in PresetIds :
            PopupApplyPreset(hostname, presetId)
    \/ \E domain \in DomainKeys, policy \in UpdateDocs : UpdateDomainPolicy(domain, policy)
    \/ \E hostname \in Hostnames, ui \in UIDocs : SavePolicy(hostname, ui)
    \/ \E domain \in DomainKeys \ {"default"}, d \in Durations : SetAllowOnce(domain, d)
    \/ \E hostname \in Hostnames : PopupSetAllowOnce(hostname)
    \/ Tick

SpecStore == InitStore /\ [][NextStore]_vars

-----------------------------------------------------------------------------
(* A page under a record the store operations produce: the relay, the      *)
(* message listener, the clock and the calls of the page                   *)

S_Essential == applyPreset(InstalledRecord, FALSE, "a.test", "essential").policies
S_HostKey == applyPreset(InitDefaultRecord, FALSE, "a.test:8080", "permissive").policies
S_AllOff == savePolicy(InstalledRecord, "a.test", UIAllOff)
S_FetchOnly == savePolicy(InitDefaultRecord, "a.test", UIFetchOnly)
S_PartialNet == updateDomainPolicy(InstalledRecord, "a.test", PartialNetDoc)
S_SparseDefault == updateDomainPolicy(NoRecord, "default", SparseDoc)
S_SparseOverride == updateDomainPolicy(InitDefaultRecord, "a.test", SparseDoc)
S_TempAllOff == setAllowOnce(S_AllOff, "a.test", 1, 0)
S_TempDefault == popup_setAllowOnce(InstalledRecord, "b.test", 0)

PageStores ==
    {NoRecord, InstalledRecord, InitDefaultRecord, S_Essential, S_HostKey, S_AllOff,
     S_FetchOnly, S_PartialNet, S_SparseDefault, S_SparseOverride, S_TempAllOff,
     S_TempDefault}

InitPage ==
    /\ store \in PageStores
    /\ presetsSet = FALSE
    /\ cache = EmptyObj
    /\ inbox = <<>>
    /\ loc \in Locations
    /\ now = 0
    /\ nops = 0
    /\ last = NoOp
    /\ LogIdle
    /\ RelayIdle
    /\ NoMutation
    /\ NoHistory

NextPage ==
    \/ SendPoliciesToPage
    \/ OnPolicyMessage
    \/ Tick
    \/ ResolveDomainPolicy
    \/ \E a \in Calls : Invoke(a)
    \/ InvokeAgain

SpecPage == InitPage /\ [][NextPage]_vars

\* page code calls an intercepted API after it has made Object.assign throw
InvokeThrowing(a) ==
    /\ last.op # "invoke"
    /\ last' = Did("invoke", a.api, a, "SG_getDomainPolicy throws",
                   PageApi_catch(cache, loc, now, a))
    /\ UNCHANGED <<store, presetsSet, cache, inbox, loc, now, nops>>
    /\ UNCHANGED aux

NextCatch ==
    \/ SendPoliciesToPage
    \/ OnPolicyMessage
    \/ Tick
    \/ \E a \in CatchCalls : InvokeThrowing(a)

SpecCatch == InitPage /\ [][NextCatch]_vars

-----------------------------------------------------------------------------
(* A page while temporary overrides are set                                *)

TempStores == {NoRecord, InstalledRecord, S_SparseDefault}

TempCalls ==
    {Call("getUserMedia", "page", k) : k \in {"video", "neither"}}
    \cup {Call(api, "page", "-") :
            api \in {"eval", "Function", "indexedDB.open", "cookie.get", "cookie.set",
                     "navigator.geolocation", "clipboard.readText"}}
    \cup {Call("fetch", "page", "absent"), Call("image", "page", "img.src"),
          Call("setItem", "page", "localStorage")}

InitTemp ==
    /\ store \in TempStores
    /\ presetsSet = FALSE
    /\ cache = EmptyObj
    /\ inbox = <<>>
    /\ loc = LocA
    /\ now = 0
    /\ nops = 0
    /\ last = NoOp
    /\ LogIdle
    /\ RelayIdle
    /\ NoMutation
    /\ NoHistory

NextTemp ==
    \/ \E d \in Durations : nops < MaxTempOps /\ SetAllowOnce("a.test", d)
    \/ \E hostname \in Hostnames : nops < MaxTempOps /\ PopupSetAllowOnce(hostname)
    \/ SendPoliciesToPage
    \/ OnPolicyMessage
    \/ Tick
    \/ \E a \in TempCalls : Invoke(a)

SpecTemp == InitTemp /\ [][NextTemp]_vars

-----------------------------------------------------------------------------
(* The classifier applied to the cookies of a page, and the clock          *)

\* popup/popup.js: CookieClassifier.classify(cookie, requestUrl).  As a call of
\* the page, a classification changes nothing but last
Classify(cookie, requestUrl) ==
    /\ last.op # "classify"
    /\ last' = Did("classify", cookie.name, [cookie |-> cookie, requestUrl |-> requestUrl],
                   "none", classify(cookie, requestUrl, now))
    /\ UNCHANGED <<store, presetsSet, cache, inbox, loc, now, nops>>
    /\ UNCHANGED aux

InitClassify ==
    /\ store = NoRecord
    /\ presetsSet = FALSE
    /\ cache = EmptyObj
    /\ inbox = <<>>
    /\ loc = LocA
    /\ now = 0
    /\ nops = 0
    /\ last = NoOp
    /\ LogIdle
    /\ RelayIdle
    /\ NoMutation
    /\ NoHistory

NextClassify ==
    \/ \E cookie \in Cookies, requestUrl \in RequestUrls : Classify(cookie, requestUrl)
    \/ Tick

SpecClassify == InitClassify /\ [][NextClassify]_vars

-----------------------------------------------------------------------------
(* The relay: the content script of README.md between the persisted record *)
(* and the page agent.  The storage serves the reads in the order they     *)
(* were made; window messages are dispatched in the order they were posted *)
(* to every listener registered at that time.                              *)

\* sendPoliciesToPage up to its await; cause names the caller
StartRead(reads, cause) ==
    Append(reads, [cause |-> cause, served |-> FALSE, policies |-> EmptyObj])

\* a storage.onChanged listener that starts no read
relay_onChanged_none(reads) == reads

\* storage.onChanged listener, changes[SCRIPTGUARD_POLICIES_KEY]
relay_onChanged(reads) == StartRead(reads, "changed")

\* a message listener that leaves the request unanswered
relay_onRequest_none(reads) == reads

\* message listener of the content script, event.data.__SG_REQUEST_POLICIES__
relay_onRequest(reads) == StartRead(reads, "request")

PoliciesMessage(policies, cause) ==
    [type |-> "__SG_INIT_POLICIES__", policies |-> policies, cause |-> cause]

RequestMessage ==
    [type |-> "__SG_REQUEST_POLICIES__", policies |-> EmptyObj, cause |-> "agent"]

\* the records a mutation of the policy store writes over the record r
PolicyWrites(r, t) ==
    {savePolicy(r, "a.test", UIAllOff), popup_setAllowOnce(r, "a.test", t)}

\* chrome.storage.local.set of the policy record; onChanged is raised when the
\* value changes
PolicyWrite(r) ==
    /\ nops < MaxOps
    /\ store' = r
    /\ nops' = nops + 1
    /\ changed' = IF r # store THEN changed + 1 ELSE changed
    /\ last' = Did("storage.set", "scriptguard_policies", "", "none", NoResult)
    /\ persisted' = persisted \cup {r}
    /\ UNCHANGED <<presetsSet, cache, inbox, loc, now, agent, windowQ, relayReads>>
    /\ UNCHANGED <<logVars, contexts, scriptguard_cookie_actions>>

\* the relay's storage.onChanged listener runs
OnStorageChanged ==
    /\ changed > 0
    /\ changed' = changed - 1
    /\ relayReads' = relay_onChanged(relayReads)
    /\ last' = Did("storage.onChanged", "scriptguard_policies", "", "none", NoResult)
    /\ UNCHANGED <<store, presetsSet, cache, inbox, loc, now, nops, agent, windowQ>>
    /\ UNCHANGED <<logVars, contexts, histVars>>

\* chrome.storage.local.get of the oldest read not served: result[KEY] || {}
RelayReadServes ==
    \E i \in 1..Len(relayReads) :
        /\ ~relayReads[i].served
        /\ \A j \in 1..(i - 1) : relayReads[j].served
        /\ relayReads' = [relayReads EXCEPT ![i].served = TRUE, ![i].policies = store]
        /\ last' = Did("storage.get", "scriptguard_policies", relayReads[i].cause, "none",
                       NoResult)
        /\ UNCHANGED <<store, presetsSet, cache, inbox, loc, now, nops, agent, windowQ,
                       changed>>
        /\ UNCHANGED <<logVars, contexts, histVars>>

\* sendPoliciesToPage after its await: window.postMessage
RelayPosts ==
    /\ relayReads # <<>>
    /\ Head(relayReads).served
    /\ windowQ' = Append(windowQ, PoliciesMessage(Head(relayReads).policies,
                                                  Head(relayReads).cause))
    /\ relayReads' = Tail(relayReads)
    /\ last' = Did("postMessage", "__SG_INIT_POLICIES__", Head(relayReads).cause, "none",
                   NoResult)
    /\ UNCHANGED <<store, presetsSet, cache, inbox, loc, now, nops, agent, changed>>
    /\ UNCHANGED <<logVars, contexts, histVars>>

\* page_agent.js runs in the page: both blocks register their message listener
\* and then post __SG_REQUEST_POLICIES__
AgentStarts ==
    /\ ~agent.ready
    /\ agent' = [agent EXCEPT !.ready = TRUE]
    /\ windowQ' = windowQ \o <<RequestMessage, RequestMessage>>
    /\ last' = Did("page_agent.js", "", "", "none", NoResult)
    /\ UNCHANGED <<store, presetsSet, cache, inbox, loc, now, nops, relayReads, changed>>
    /\ UNCHANGED <<logVars, contexts, histVars>>

\* the oldest window message is dispatched: to the listener of the content
\* script, and to the listeners of the page agent when it has run
DispatchMessage ==
    /\ windowQ # <<>>
    /\ LET m == Head(windowQ)
           isPolicies == m.type = "__SG_INIT_POLICIES__"
       IN  /\ windowQ' = Tail(windowQ)
           /\ relayReads' = IF isPolicies THEN relayReads ELSE relay_onRequest(relayReads)
           /\ cache' = IF isPolicies /\ agent.ready THEN m.policies ELSE cache
           /\ agent' = IF isPolicies /\ ~agent.ready THEN [agent EXCEPT !.missed = TRUE]
                       ELSE agent
           /\ last' = Did(IF ~isPolicies THEN "request"
                          ELSE IF agent.ready THEN "message" ELSE "message lost",
                          m.type, m.cause, "none", NoResult)
    /\ UNCHANGED <<store, presetsSet, inbox, loc, now, nops, changed>>
    /\ UNCHANGED <<logVars, contexts, histVars>>

\* the content script has run: its listeners are registered and the read of its
\* initial push is in flight
InitRelay ==
    /\ store \in {NoRecord, InstalledRecord}
    /\ presetsSet = FALSE
    /\ cache = EmptyObj
    /\ inbox = <<>>
    /\ loc = LocA
    /\ now = 0
    /\ nops = 0
    /\ last = NoOp
    /\ LogIdle
    /\ agent = [ready |-> FALSE, missed |-> FALSE]
    /\ windowQ = <<>>
    /\ relayReads = StartRead(<<>>, "startup")
    /\ changed = 0
    /\ NoMutation
    /\ NoHistory

NextRelay ==
    \/ \E r \in PolicyWrites(store, now) : PolicyWrite(r)
    \/ OnStorageChanged
    \/ RelayReadServes
    \/ RelayPosts
    \/ AgentStarts
    \/ DispatchMessage

SpecRelay == InitRelay /\ [][NextRelay]_vars

\* every step of the relay, of the storage and of the page is taken in the end
SpecRelayFair ==
    /\ SpecRelay
    /\ WF_vars(OnStorageChanged)
    /\ WF_vars(RelayReadServes)
    /\ WF_vars(RelayPosts)
    /\ WF_vars(AgentStarts)
    /\ WF_vars(DispatchMessage)

\* a sendPoliciesToPage whose catch posts an empty policy set
relay_onReadFailed_postsEmpty(q, read) == Append(q, PoliciesMessage(EmptyObj, read.cause))

\* sendPoliciesToPage, catch (e): fail silently, nothing is posted
relay_onReadFailed(q, read) == q

\* chrome.storage.local.get of the oldest read not served rejects: the await in
\* sendPoliciesToPage throws and the call ends in its catch
RelayReadFails ==
    \E i \in 1..Len(relayReads) :
        /\ ~relayReads[i].served
        /\ \A j \in 1..(i - 1) : relayReads[j].served
        /\ relayReads' = SubSeq(relayReads, 1, i - 1)
                            \o SubSeq(relayReads, i + 1, Len(relayReads))
        /\ windowQ' = relay_onReadFailed(windowQ, relayReads[i])
        /\ last' = Did("storage.get failed", "scriptguard_policies", relayReads[i].cause,
                       "rejected", NoResult)
        /\ UNCHANGED <<store, presetsSet, cache, inbox, loc, now, nops, agent, changed>>
        /\ UNCHANGED <<logVars, contexts, histVars>>

NextRelayFail ==
    \/ NextRelay
    \/ RelayReadFails

\* the relay when reads of the storage can fail
SpecRelayFail == InitRelay /\ [][NextRelayFail]_vars

\* a policy set of the page's own making: everything allowed for every origin
ForgedPolicies == [default |-> PRESETS.permissive.policy]

\* a script of the page calls window.postMessage({ __SG_INIT_POLICIES__: true,
\* policies }, '*'): the event has event.source === window, as the relay's has
PagePosts(policies) ==
    /\ agent.ready
    /\ \A i \in DOMAIN windowQ : windowQ[i].cause # "page"
    /\ windowQ' = Append(windowQ, PoliciesMessage(policies, "page"))
    /\ last' = Did("postMessage", "__SG_INIT_POLICIES__", "page", "none", NoResult)
    /\ UNCHANGED <<store, presetsSet, cache, inbox, loc, now, nops, agent, relayReads,
                   changed>>
    /\ UNCHANGED <<logVars, contexts, histVars>>

NextUntrusted ==
    \/ NextRelay
    \/ PagePosts(ForgedPolicies)

\* the relay and a page whose scripts post messages of their own
SpecUntrusted == InitRelay /\ [][NextUntrusted]_vars

-----------------------------------------------------------------------------
(* Mutations of the policy record, await by await, from two extension      *)
(* contexts.  Each get and each set of chrome.storage.local is atomic; a    *)
(* mutation is a get of the whole record, a change of the copy, and a set   *)
(* of the whole copy.                                                       *)

\* the mutations a context starts: the popup works on the origin of its tab,
\* the options page on another origin
Mutations(c) ==
    IF c = "popup"
    THEN {[op |-> "savePolicy", key |-> "a.test", arg |-> UIAllOff],
          [op |-> "popup.setAllowOnce", key |-> "a.test", arg |-> ""]}
    ELSE {[op |-> "applyPreset", key |-> "b.test", arg |-> "balanced"],
          [op |-> "updateDomainPolicy", key |-> "b.test", arg |-> SparseDoc],
          [op |-> "setAllowOnce", key |-> "b.test", arg |-> ALLOW_ONCE_MINUTES]}

\* the record a mutation sets, from the copy it read
Changed(x, t) ==
    CASE x.op = "savePolicy" -> savePolicy(x.policies, x.key, x.arg)
      [] x.op = "popup.setAllowOnce" -> popup_setAllowOnce(x.policies, x.key, t)
      [] x.op = "applyPreset" -> applyPreset(x.policies, FALSE, x.key, x.arg).policies
      [] x.op = "updateDomainPolicy" -> updateDomainPolicy(x.policies, x.key, x.arg)
      [] x.op = "setAllowOnce" -> updateDomainPolicy(x.policies, x.key, x.policy)

\* a context calls a mutation, which runs up to its first await
BeginMutation(c, m) ==
    /\ contexts[c].pc = "idle"
    /\ contexts' = [contexts EXCEPT ![c] =
            [IdleContext EXCEPT !.pc = IF m.op = "setAllowOnce" THEN "getDomainPolicy"
                                       ELSE "get",
                                !.op = m.op, !.key = m.key, !.arg = m.arg]]
    /\ UNCHANGED <<policyVars, logVars, relayVars, histVars>>

\* policies.js setAllowOnce: await getDomainPolicy(domain), then _allowOnce
GetDomainPolicyReturns(c) ==
    /\ contexts[c].pc = "getDomainPolicy"
    /\ contexts' = [contexts EXCEPT ![c].pc = "get",
                                    ![c].policy =
                                        Put(getDomainPolicy(store, contexts[c].key),
                                            "_allowOnce",
                                            AllowOnceBundle(now + contexts[c].arg))]
    /\ UNCHANGED <<policyVars, logVars, relayVars, histVars>>

\* await chrome.storage.local.get(SCRIPTGUARD_POLICIES_KEY): the copy
GetReturns(c) ==
    /\ contexts[c].pc = "get"
    /\ contexts' = [contexts EXCEPT ![c].pc = "set", ![c].policies = store]
    /\ UNCHANGED <<policyVars, logVars, relayVars, histVars>>

\* await chrome.storage.local.set({ [SCRIPTGUARD_POLICIES_KEY]: policies })
SetReturns(c) ==
    /\ contexts[c].pc = "set"
    /\ store' = Changed(contexts[c], now)
    /\ contexts' = [contexts EXCEPT ![c].pc = "done"]
    /\ persisted' = persisted \cup {store'}
    /\ UNCHANGED <<presetsSet, cache, inbox, loc, now, nops, last, logVars, relayVars,
                   scriptguard_cookie_actions>>

InitRace ==
    /\ store \in {NoRecord, InstalledRecord, InitDefaultRecord}
    /\ presetsSet = FALSE
    /\ cache = EmptyObj
    /\ inbox = <<>>
    /\ loc = LocA
    /\ now = 0
    /\ nops = 0
    /\ last = NoOp
    /\ LogIdle
    /\ RelayIdle
    /\ NoMutation
    /\ NoHistory

NextRace ==
    \/ \E c \in Contexts : \E m \in Mutations(c) : BeginMutation(c, m)
    \/ \E c \in Contexts : GetDomainPolicyReturns(c)
    \/ \E c \in Contexts : GetReturns(c)
    \/ \E c \in Contexts : SetReturns(c)

SpecRace == InitRace /\ [][NextRace]_vars

-----------------------------------------------------------------------------
(* Cookie action history: policies.js recordCookieAction and               *)
(* undoLastCookieAction, popup.js recordCookieAction.  The cookies are      *)
(* numbered in the order the user acts on them.                             *)

MAX_ACTIONS == 50
MaxActions == 3

\* { ...action, timestamp: Date.now(), domain }
ActionWithMeta(action, domain, t) ==
    [action |-> action.action, cookieName |-> action.cookieName, timestamp |-> t,
     domain |-> domain]

\* a recordCookieAction that adds the entry at the end and cuts nothing
recordCookieAction_push(history, domain, action, t) ==
    history \o <<ActionWithMeta(action, domain, t)>>

\* history.unshift(actionWithMeta); if (history.length > 50) history.length = 50
recordCookieAction(history, domain, action, t) ==
    Truncate(<<ActionWithMeta(action, domain, t)>> \o history, MAX_ACTIONS)

\* what the popup passes: allowCookieOnce, sessionizeCookie, blockCookie
ActionKinds == {"allow_once", "block"}

\* a history one entry short of the cap, recorded at time 0
NearlyFullHistory ==
    [i \in 1..(MAX_ACTIONS - 1) |->
        ActionWithMeta([action |-> "block", cookieName |-> 1 - i], "a.test", 0)]

\* policies.js recordCookieAction; returns actionWithMeta
RecordCookieAction(domain, kind) ==
    LET action == [action |-> kind, cookieName |-> nops + 1]
    IN  /\ nops < MaxActions
        /\ scriptguard_cookie_actions' =
                recordCookieAction(scriptguard_cookie_actions, domain, action, now)
        /\ nops' = nops + 1
        /\ last' = Did("recordCookieAction", domain, action, "none",
                       <<ActionWithMeta(action, domain, now)>>)
        /\ UNCHANGED <<store, presetsSet, cache, inbox, loc, now>>
        /\ UNCHANGED <<logVars, relayVars, contexts, persisted>>

\* popup.js recordCookieAction; returns nothing
PopupRecordCookieAction(hostname, kind) ==
    LET action == [action |-> kind, cookieName |-> nops + 1]
    IN  /\ nops < MaxActions
        /\ scriptguard_cookie_actions' =
                recordCookieAction(scriptguard_cookie_actions, hostname, action, now)
        /\ nops' = nops + 1
        /\ last' = Did("popup.recordCookieAction", hostname, action, "none", <<>>)
        /\ UNCHANGED <<store, presetsSet, cache, inbox, loc, now>>
        /\ UNCHANGED <<logVars, relayVars, contexts, persisted>>

\* policies.js undoLastCookieAction; returns the entry it removed, or null
UndoLastCookieAction ==
    /\ nops < MaxActions
    /\ nops' = nops + 1
    /\ IF Len(scriptguard_cookie_actions) = 0
       THEN /\ last' = Did("undoLastCookieAction", "", "", "none", <<>>)
            /\ UNCHANGED scriptguard_cookie_actions
       ELSE /\ last' = Did("undoLastCookieAction", "", "", "none",
                           <<Head(scriptguard_cookie_actions)>>)
            /\ scriptguard_cookie_actions' = Tail(scriptguard_cookie_actions)
    /\ UNCHANGED <<store, presetsSet, cache, inbox, loc, now>>
    /\ UNCHANGED <<logVars, relayVars, contexts, persisted>>

InitHistory ==
    /\ store = NoRecord
    /\ presetsSet = FALSE
    /\ cache = EmptyObj
    /\ inbox = <<>>
    /\ loc = LocA
    /\ now = 0
    /\ nops = 0
    /\ last = NoOp
    /\ LogIdle
    /\ RelayIdle
    /\ NoMutation
    /\ scriptguard_cookie_actions \in {<<>>, NearlyFullHistory}
    /\ persisted = {store}

NextHistory ==
    \/ \E d \in {"a.test", "b.test"} : \E k \in ActionKinds : RecordCookieAction(d, k)
    \/ \E k \in ActionKinds : PopupRecordCookieAction("a.test", k)
    \/ UndoLastCookieAction
    \/ Tick

SpecHistory == InitHistory /\ [][NextHistory]_vars

-----------------------------------------------------------------------------
(* The engine's own operations in the page: the purge of blocked cookies   *)
(* (page_agent.js 1125-1161) and DOM calls made while                       *)
(* window.__SG_INTERNAL_CALL__ is set.  document.cookie is the sequence of  *)
(* the names of the cookies of the page.                                    *)

\* the three assignments to document.cookie that remove one cookie, through
\* the setter that is installed on document: the one of the second block
RemoveOne(P, L, t) ==
    LET w == A2_cookieSet(P, L, t, Call("cookie.set", "page", "-"))
    IN  [native |-> w.decision = "allowed", logs |-> w.logs \o w.logs \o w.logs]

\* the sequence s written n times
Repeat(s, n) == [k \in 1..(n * Len(s)) |-> s[((k - 1) % Len(s)) + 1]]

\* for (const cookie of cookies): what the loop over the cookies does
RemoveLoop(P, L, t, blocked, cookies) ==
    LET n == Cardinality({i \in 1..Len(cookies) : cookies[i] \in blocked})
        one == RemoveOne(P, L, t)
    IN  [removed |-> n > 0, native |-> n > 0 => one.native,
         logs |-> IF one.logs = <<>> THEN <<>> ELSE Repeat(one.logs, n)]

\* SG_removeBlockedCookies: blocked is window.__SG_BLOCKED_COOKIES__, jar the
\* cookies of the page
SG_removeBlockedCookies(P, L, t, blocked, jar) ==
    IF blocked = {} THEN [decision |-> "allowed", logs |-> <<>>, how |-> "return"]
    ELSE LET read == A2_cookieGet(P, L, t, Call("cookie.get", "page", "-"))
             cookies == IF read.decision = "allowed" THEN jar ELSE <<>>
             loop == RemoveLoop(P, L, t, blocked, cookies)
         IN  [decision |-> IF read.decision = "allowed" /\ loop.native
                           THEN "allowed" ELSE "blocked",
              logs |-> read.logs \o loop.logs \o
                       (IF loop.removed
                        THEN <<SG_createLog("cookie", "blocked",
                                            "cookies_removed_persistently")>>
                        ELSE <<>>),
              how |-> IF loop.removed THEN "removed" ELSE "none"]

CookieJars == {<<>>, <<"sid">>, <<"sid", "trk">>}
BlockedSets == {{}, {"trk"}, {"sid", "trk"}}

\* the DOM calls the engine makes with window.__SG_INTERNAL_CALL__ set
InternalCalls == {Call(api, "internal", api) : api \in {"appendChild", "innerHTML"}}

\* the callback of setInterval(SG_removeBlockedCookies, 50)
RunPurge(blocked, jar) ==
    /\ last.op # "SG_removeBlockedCookies"
    /\ last' = Did("SG_removeBlockedCookies", "", [blocked |-> blocked, jar |-> jar],
                   "none", SG_removeBlockedCookies(cache, loc, now, blocked, jar))
    /\ UNCHANGED <<store, presetsSet, cache, inbox, loc, now, nops>>
    /\ UNCHANGED aux

\* a DOM call made while window.__SG_INTERNAL_CALL__ is set
InvokeInternal(a) ==
    /\ last.op # "invoke"
    /\ last' = Did("invoke", a.api, a, "none", PageApi(cache, loc, now, a))
    /\ UNCHANGED <<store, presetsSet, cache, inbox, loc, now, nops>>
    /\ UNCHANGED aux

NextInternal ==
    \/ SendPoliciesToPage
    \/ OnPolicyMessage
    \/ Tick
    \/ \E b \in BlockedSets : \E j \in CookieJars : RunPurge(b, j)
    \/ \E a \in InternalCalls : InvokeInternal(a)

SpecInternal == InitPage /\ [][NextInternal]_vars

-----------------------------------------------------------------------------
(* The relay and the log buffer together: a policy push makes the agent     *)
(* post a log record, the content script forwards it to the background,     *)
(* and the flush writes the log key of chrome.storage.local.                *)

\* a listener that pushes the policies on a change of any key
relay_onChangedKeys_any(reads, keys) == relay_onChanged(reads)

\* storage.onChanged listener of the content script: keys are the keys of changes
relay_onChangedKeys(reads, keys) ==
    IF "scriptguard_policies" \in keys THEN relay_onChanged(reads) ELSE reads

\* SG_sendLog of the agent: window.postMessage({ __SG_LOG__: logObj })
LogMessage(event) == [type |-> "__SG_LOG__", policies |-> EmptyObj, cause |-> event]

\* the records the background is let receive: more than the pushes of MaxOps
\* mutations can make
LoopMaxLogs == 2 * MaxOps + 4

\* the oldest window message is dispatched to the listener of the content
\* script and to the two listeners of the page agent; the agent has run and
\* made its requests, so the messages are pushes and log records
LoopDispatch ==
    /\ windowQ # <<>>
    /\ LET m == Head(windowQ)
       IN  CASE m.type = "__SG_INIT_POLICIES__" ->
                    /\ cache' = m.policies
                    /\ windowQ' = Tail(windowQ) \o <<LogMessage("policies_updated"),
                                                     LogMessage("policies_updated")>>
                    /\ last' = Did("message", m.type, m.cause, "none", NoResult)
                    /\ UNCHANGED <<relayReads, logVars>>
             [] m.type = "__SG_LOG__" ->
                    /\ seq <= LoopMaxLogs
                    /\ windowQ' = Tail(windowQ)
                    /\ logBuffer' = bufferLog(logBuffer, seq)
                    /\ timers' = armTimer(flushTimer, timers)
                    /\ flushTimer' = TRUE
                    /\ seq' = seq + 1
                    /\ last' = Did("SG_LOG", m.type, m.cause, "none", NoResult)
                    /\ UNCHANGED <<cache, relayReads, scriptguard_logs, storageQ,
                                   clearRequest, logsResponse>>
    /\ UNCHANGED <<store, presetsSet, inbox, loc, now, nops, agent, changed>>
    /\ UNCHANGED <<contexts, histVars>>

\* chrome.storage.local serves a call of the background; a set that changes the
\* log raises storage.onChanged with the log key, and the listener of the
\* content script runs
LoopStorageServes ==
    \E i \in Unserved :
        LET c == storageQ[i]
        IN  /\ storageQ' = [storageQ EXCEPT ![i] =
                    [c EXCEPT !.served = TRUE,
                              !.value = IF c.kind = "get" THEN scriptguard_logs
                                        ELSE c.value]]
            /\ scriptguard_logs' = IF c.kind = "set" THEN c.value ELSE scriptguard_logs
            /\ relayReads' = IF c.kind = "set" /\ c.value # scriptguard_logs
                             THEN relay_onChangedKeys(relayReads, {"scriptguard_logs"})
                             ELSE relayReads
            /\ UNCHANGED <<logBuffer, flushTimer, seq, timers, clearRequest, logsResponse>>
            /\ UNCHANGED <<policyVars, agent, windowQ, changed, contexts, histVars>>

\* the page is loaded and in step with the record
InitLoop ==
    /\ store = InstalledRecord
    /\ presetsSet = FALSE
    /\ cache = InstalledRecord
    /\ inbox = <<>>
    /\ loc = LocA
    /\ now = 0
    /\ nops = 0
    /\ last = NoOp
    /\ LogIdle
    /\ agent = [ready |-> TRUE, missed |-> FALSE]
    /\ windowQ = <<>>
    /\ relayReads = <<>>
    /\ changed = 0
    /\ NoMutation
    /\ NoHistory

NextLoop ==
    \/ \E r \in PolicyWrites(store, now) : PolicyWrite(r)
    \/ OnStorageChanged
    \/ RelayReadServes
    \/ RelayPosts
    \/ LoopDispatch
    \/ TimerFires
    \/ LoopStorageServes
    \/ AfterAwait

SpecLoop == InitLoop /\ [][NextLoop]_vars

\* every step but the mutations is taken in the end
SpecLoopFair ==
    /\ SpecLoop
    /\ WF_vars(OnStorageChanged)
    /\ WF_vars(RelayReadServes)
    /\ WF_vars(RelayPosts)
    /\ WF_vars(LoopDispatch)
    /\ WF_vars(TimerFires)
    /\ WF_vars(LoopStorageServes)
    /\ WF_vars(AfterAwait)

-----------------------------------------------------------------------------
(* Properties                                                              *)

\* the document the lookup of the page finds for its origin carries a temporary
\* override that expires at t or later
TempLive(P, L, t) ==
    LET h == SG_hostPolicy(P, L)
    IN  Has(h, "_allowOnce") /\ h["_allowOnce"].until >= t

\* a field as the stored documents of the origin give it: the override's when
\* the override names the field, else the stored default's
StoredPresent(P, L, field) ==
    \/ Has(SG_hostPolicy(P, L), field)
    \/ Has(P, "default") /\ Has(P["default"], field)

StoredValue(P, L, field) ==
    IF Has(SG_hostPolicy(P, L), field) THEN SG_hostPolicy(P, L)[field]
    ELSE P["default"][field]

StoredTrue(P, L, field) == StoredPresent(P, L, field) /\ StoredValue(P, L, field) = TRUE

\* the resolved document carries no temporary override that is live at t
NoLiveTemp(P, L, t) ==
    StoredPresent(P, L, "_allowOnce") => StoredValue(P, L, "_allowOnce").until < t

\* C1: while the document of the origin carries a temporary override whose
\* expiry is at or after now, every call of every capability is allowed, whatever
\* the document denies
C1_TempOverrideAllowsAll ==
    (last.op = "invoke" /\ TempLive(cache, loc, now)) => last.res.decision = "allowed"

\* C2 (expired): the temporary override has expired, is still in the document,
\* and eval, which the document does not allow, is blocked
C2_Expired ==
    /\ last.op = "invoke" /\ last.key = "eval"
    /\ Has(SG_hostPolicy(cache, loc), "_allowOnce")
    /\ SG_hostPolicy(cache, loc)["_allowOnce"].until < now
    /\ SG_hostPolicy(store, loc) = SG_hostPolicy(cache, loc)
    /\ last.res.decision = "blocked"

\* C2: a temporary override set at t for d minutes expires at t + d; eval is
\* allowed at every time up to and including the expiry; after it, with the
\* override still in the document, eval is blocked (one record) unless the
\* document says eval is true
C2_LazyExpiry ==
    /\ last.op \in {"setAllowOnce", "popup.setAllowOnce"} =>
            /\ Has(store[last.key], "_allowOnce")
            /\ store[last.key]["_allowOnce"].until = last.arg
            /\ last.arg >= now
    /\ (last.op = "invoke" /\ last.key = "eval"
            /\ Has(SG_hostPolicy(cache, loc), "_allowOnce")) =>
            LET until == SG_hostPolicy(cache, loc)["_allowOnce"].until
            IN  /\ now <= until => last.res = Allow("native")
                /\ (now > until /\ ~StoredTrue(cache, loc, "eval"))
                        => last.res = Block("eval", "eval", "throw")

\* the sensitive fields a call needs
SensitiveFields(a) ==
    CASE a.api \in {"navigator.geolocation", "geolocation request", "getCurrentPosition",
                    "watchPosition"} -> {"geolocation"}
      [] a.api = "permissions.query" /\ a.kind \in {"geolocation", "camera", "microphone"}
            -> {a.kind}
      [] a.api = "getUserMedia" ->
            {f \in {"camera"} : NeedsCamera(a.kind)}
            \cup {f \in {"microphone"} : NeedsMicrophone(a.kind)}
      [] a.api = "enumerateDevices" ->
            {f \in {"camera"} : a.kind \in {"camera", "camera+microphone"}}
            \cup {f \in {"microphone"} : a.kind = "camera+microphone"}
      [] a.api \in {"clipboard.readText", "clipboard.writeText"} -> {"clipboard"}
      [] a.api = "Notification" -> {"notifications"}
      [] a.api = "RTCPeerConnection" -> {"webrtc"}
      [] a.api = "eval" -> {"eval"}
      [] a.api = "Function" -> {"functionConstructor"}
      [] OTHER -> {}

\* C3 (absent): eval is named by neither document of the origin, no temporary
\* override is live, and the call is blocked
C3_AbsentDenied ==
    /\ last.op = "invoke" /\ last.key = "eval"
    /\ Has(cache, "default")
    /\ ~StoredPresent(cache, loc, "eval")
    /\ NoLiveTemp(cache, loc, now)
    /\ last.res.decision = "blocked"

\* C3: with no live temporary override, a call of a sensitive capability
\* (geolocation, camera, microphone, clipboard, notifications, peer connection,
\* eval, Function constructor) is allowed only when each field it needs is an
\* explicit true; when a field it needs is named by neither the override nor
\* the default, the call is blocked
C3_SensitiveDenyByDefault ==
    (/\ last.op = "invoke"
     /\ SensitiveFields(last.arg) # {}
     /\ NoLiveTemp(cache, loc, now)) =>
        /\ last.res.decision = "allowed" =>
                \A f \in SensitiveFields(last.arg) : StoredTrue(cache, loc, f)
        /\ (\E f \in SensitiveFields(last.arg) : ~StoredPresent(cache, loc, f)) =>
                /\ last.res.decision = "blocked"
                /\ Len(last.res.logs) >= 1

\* the sub-field of network a call is governed by
NetSubOf(a) ==
    CASE a.api = "fetch" -> "fetch"
      [] a.api = "xhr.send" -> "xhr"
      [] a.api = "WebSocket" -> "websocket"
      [] a.api = "sendBeacon" -> "beacon"
      [] OTHER -> "none"

\* a document does not name the sub-field of network
DocLacksNetSub(doc, sub) ==
    \/ ~Has(doc, "network")
    \/ doc["network"].type = "object" /\ ~Has(doc["network"].val, sub)

\* neither document of the origin names the sub-field
NetSubAbsent(P, L, sub) ==
    /\ DocLacksNetSub(SG_hostPolicy(P, L), sub)
    /\ Has(P, "default") => DocLacksNetSub(P["default"], sub)

\* the sub-field merged field by field: the override's when the override names
\* it, else the stored default's
NetSubMergedTrue(P, L, sub) ==
    LET h == SG_hostPolicy(P, L)
    IN  IF ~DocLacksNetSub(h, sub)
        THEN h["network"].type = "object" /\ h["network"].val[sub] = TRUE
        ELSE /\ Has(P, "default")
             /\ ~DocLacksNetSub(P["default"], sub)
             /\ P["default"]["network"].type = "object"
             /\ P["default"]["network"].val[sub] = TRUE

\* the top-level infrastructural field a call is governed by
InfraFieldOf(a) ==
    CASE a.api \in {"setItem", "getItem", "removeItem", "clear"} -> a.kind
      [] a.api = "indexedDB.open" -> "indexeddb"
      [] a.api \in {"cookie.get", "cookie.set"} -> "cookies"
      [] a.api \in {"appendChild", "innerHTML"} -> "dom"
      [] a.api = "image" -> "imageLoading"
      [] a.api = "style" -> "styleLoading"
      [] OTHER -> "none"

\* the field that governs the call is named by neither document of the origin,
\* and storage is not denied for a call of a storage object
InfraAbsent(P, L, a) ==
    \/ /\ NetSubOf(a) # "none"
       /\ Has(P, "default")
       /\ NetSubAbsent(P, L, NetSubOf(a))
    \/ /\ InfraFieldOf(a) # "none"
       /\ Has(P, "default")
       /\ ~StoredPresent(P, L, InfraFieldOf(a))
       /\ a.api = "setItem" => StoredTrue(P, L, "storage")

\* C4: a call of an infrastructural capability (the four network sub-fields,
\* local, session and indexed storage, cookies, DOM, image and style loading)
\* whose field is named by neither the override nor the default is allowed
C4_InfraAllowByDefault ==
    (last.op = "invoke" /\ InfraAbsent(cache, loc, last.arg)) =>
        last.res.decision = "allowed"

\* C5: the four network sub-fields are independent: a network call whose own
\* sub-field is true after a field-by-field merge of override and default is
\* allowed, whatever the override says of the other sub-fields
C5_NetworkSubFieldsIndependent ==
    (/\ last.op = "invoke"
     /\ NetSubOf(last.arg) # "none"
     /\ NetSubMergedTrue(cache, loc, NetSubOf(last.arg))) =>
        last.res.decision = "allowed"

\* no document is stored under a key the page looks up for its origin
NoOverride(P, L) == ~Has(P, L.hostname) /\ ~Has(P, L.host) /\ ~Has(P, L.origin)

\* C6 (resolved): the page resolves its policy while another origin has an
\* override and its own origin has none
C6_ResolvedDefault ==
    /\ last.op = "SG_getDomainPolicy"
    /\ Has(cache, "default")
    /\ NoOverride(cache, loc)
    /\ \E k \in DOMAIN cache : k \notin {"default", "_presets", "_selectedPreset"}
    /\ last.res.first = cache["default"]

\* C6: for an origin with no override under its hostname, its host or its
\* origin, the policy both agent blocks resolve, and the policy getDomainPolicy
\* of policies.js resolves, is the stored default document, field for field
C6_NoOverrideIsDefault ==
    /\ (/\ last.op = "SG_getDomainPolicy"
        /\ Has(cache, "default")
        /\ NoOverride(cache, loc)) =>
            /\ last.res.first = cache["default"]
            /\ last.res.second = cache["default"]
    /\ \A L \in Locations :
            (Has(store, "default") /\ NoOverride(store, L)) =>
                getDomainPolicy(store, L.hostname) = store["default"]

\* C7: after applyPreset(origin, preset) the policy the page of that origin
\* resolves from the record is exactly the policy of the preset
C7_PresetReplacesEverything ==
    (last.op = "applyPreset" /\ last.err = "none") =>
        \A L \in Locations :
            L.hostname = last.key =>
                /\ Policy1(store, L, now) = PRESETS[last.arg].policy
                /\ Policy2(store, L, now) = PRESETS[last.arg].policy

\* C8: applyPreset with an id that no preset catalog has ends with the error
\* UnknownPreset
C8_UnknownPresetSurfaced ==
    (/\ last.op \in {"applyPreset", "popup.applyPreset"}
     /\ ~Has(PRESETS, last.arg)
     /\ ~Has(POPUP_DEFAULT_PRESETS, last.arg)) =>
        last.err = "UnknownPreset"

C10_Requested ==
    /\ last.op = "invoke" /\ last.key = "geolocation request"
    /\ Has(cache, "default")
    /\ NoOverride(cache, loc)
    /\ ~Has(cache["default"], "geolocation")
    /\ last.res.decision = "blocked"

\* C10: with a stored default, no override for the origin and geolocation named
\* by no document, navigator.geolocation.getCurrentPosition(...) is blocked and
\* hands exactly one record to SG_sendLog, of type geolocation and decision
\* blocked
C10_GeolocationBlockedOnce ==
    (/\ last.op = "invoke" /\ last.key = "geolocation request"
     /\ Has(cache, "default")
     /\ NoOverride(cache, loc)
     /\ ~Has(cache["default"], "geolocation")) =>
        /\ last.res.decision = "blocked"
        /\ Len(last.res.logs) = 1
        /\ last.res.logs[1].type = "geolocation"
        /\ last.res.logs[1].decision = "blocked"

\* the calls that ask for the position of the device
LocationCalls == {"geolocation request", "getCurrentPosition", "watchPosition"}

\* C11: a denied location request (navigator.geolocation.getCurrentPosition or
\* watchPosition as page code writes it, or the method called on the Geolocation
\* object) returns to the caller without an exception and without having called
\* the error callback: the error is delivered by the error callback in a timer
C11_DeniedLocationAsync ==
    (/\ last.op = "invoke"
     /\ last.key \in LocationCalls
     /\ last.res.decision = "blocked") =>
        last.res.how = "async error callback"

Records(q) == {q[i] : i \in 1..Len(q)}

\* newest first: every record is newer than the one after it
NewestFirst(q) == \A i \in 1..(Len(q) - 1) : q[i] > q[i + 1]

\* C13 (dropped): the buffer is full, the record just received is at its head,
\* and the oldest record it held has gone
C13_OldestDropped ==
    /\ Len(logBuffer) = MAX_BUFFER
    /\ seq = 3
    /\ Head(logBuffer) = 2
    /\ logBuffer[MAX_BUFFER] = 3 - MAX_BUFFER

\* C13: the buffer never holds more than MAX_BUFFER (200) records; a record
\* received is in the buffer after the step that receives it, and every record
\* that step drops is older than every record it keeps
C13_BufferBounded ==
    /\ [](Len(logBuffer) <= MAX_BUFFER)
    /\ [][seq' # seq =>
            LET before == Records(logBuffer) \cup {seq}
                after == Records(logBuffer')
            IN  /\ after \subseteq before
                /\ seq \in after
                /\ Len(logBuffer') = IF Len(logBuffer) < MAX_BUFFER
                                     THEN Len(logBuffer) + 1 ELSE MAX_BUFFER
                /\ \A d \in before \ after : \A k \in after : d < k]_vars

\* C14 (truncated): a flush of a batch over a persisted log has been written,
\* the persisted log is full, and its oldest records have gone
C14_Truncated ==
    /\ Len(scriptguard_logs) = MAX_LOGS
    /\ Head(scriptguard_logs) >= 1
    /\ scriptguard_logs[MAX_LOGS] > 4 - MAX_BUFFER - MAX_LOGS

\* C14: the persisted log never holds more than MAX_LOGS (1000) records and is
\* ordered newest first; the list a flush writes is the batch, newest first,
\* followed by the records it read, cut to the first MAX_LOGS: a record it
\* leaves out is older than every record it writes
C14_PersistedNewestFirst ==
    /\ [](Len(scriptguard_logs) <= MAX_LOGS)
    /\ [](NewestFirst(scriptguard_logs))
    /\ [](\A i \in 1..Len(storageQ) :
            storageQ[i].kind = "set" =>
                /\ Len(storageQ[i].value) <= MAX_LOGS
                /\ NewestFirst(storageQ[i].value))
    /\ [][(/\ storageQ # <<>>
           /\ Head(storageQ).served /\ Head(storageQ).ok /\ Head(storageQ).kind = "get"
           /\ storageQ' # storageQ /\ Len(storageQ') = Len(storageQ)
           /\ SubSeq(storageQ', 1, Len(storageQ) - 1) = Tail(storageQ)) =>
            LET written == storageQ'[Len(storageQ')].value
                combined == logBuffer \o Head(storageQ).value
            IN  /\ written = SubSeq(combined, 1, Len(written))
                /\ Len(written) = IF Len(combined) > MAX_LOGS THEN MAX_LOGS
                                  ELSE Len(combined)
                /\ \A d \in Records(combined) \ Records(written) :
                        \A k \in Records(written) : d < k]_vars

\* C15: classifying a cookie for a request URL gives the category, the score
\* and the risk tier that classifying the same cookie for the same URL gave at
\* every earlier time
C15_ClassifierDeterministic ==
    last.op = "classify" =>
        \A t \in 0..now :
            LET earlier == classify(last.arg.cookie, last.arg.requestUrl, t)
            IN  /\ earlier.category = last.res.category
                /\ earlier.score = last.res.score
                /\ earlier.riskLevel = last.res.riskLevel

\* C16 (settled): the record was written twice, every message has been handled,
\* and the page caches the record as it is persisted
C16_Settled ==
    /\ nops = MaxOps
    /\ store # EmptyObj
    /\ changed = 0 /\ relayReads = <<>> /\ windowQ = <<>>
    /\ cache = store

\* C16: once the writes of the policy record have ended, the policy set the
\* page caches becomes equal to the persisted record and stays equal, when every
\* storage read is served and every message and event is dispatched
C16_CacheEventuallyConsistent == <>[](cache = store)

\* C17 (resync): the first push found no listener in the page, and the page has
\* now received the persisted record in answer to its own request
C17_Resynced ==
    /\ agent.missed
    /\ last.op = "message" /\ last.arg = "request"
    /\ nops = 0
    /\ cache = store /\ store # EmptyObj

\* C17: a request for the policies is in the window queue only once the page
\* agent has registered its listener; the relay starts a read for every request
\* it is handed, and a read is served with the record as persisted at that
\* time; so a page that has missed a push receives the policy set later
C17_ResyncOnStartup ==
    /\ [](\A i \in 1..Len(windowQ) :
            windowQ[i].type = "__SG_REQUEST_POLICIES__" => agent.ready)
    /\ [][(last'.op = "request" /\ last' # last) =>
            /\ Len(relayReads') = Len(relayReads) + 1
            /\ relayReads'[Len(relayReads')].cause = "request"]_vars
    /\ [](\A i \in 1..Len(relayReads) :
            (relayReads[i].served /\ nops = 0) => relayReads[i].policies = store)
    /\ (last.op = "message lost") ~> (last.op = "message" /\ last.arg = "request")

\* the effect of a finished mutation is in the record S
EffectIn(x, S) ==
    /\ Has(S, x.key)
    /\ CASE x.op \in {"savePolicy", "updateDomainPolicy"} -> S[x.key] = x.arg
         [] x.op = "applyPreset" -> S[x.key] = PRESETS[x.arg].policy
         [] OTHER -> Has(S[x.key], "_allowOnce")

\* C18: when a mutation from the popup on one origin and a mutation from the
\* options page on another origin have both completed, whatever the order of
\* their reads and writes, the persisted record holds the effect of both
C18_NoLostUpdates ==
    (\A c \in Contexts : contexts[c].pc = "done") =>
        \A c \in Contexts : EffectIn(contexts[c], store)

\* the policies P after the geolocation toggle of every document that the
\* resolution for L reads is set to v
WithGeolocation(P, L, v) ==
    [k \in DOMAIN P |->
        IF k \in {"default", L.hostname, L.host, L.origin}
        THEN Put(P[k], "geolocation", v)
        ELSE P[k]]

\* the calls governed by a toggle other than geolocation
PeerAndMotionCalls ==
    {a \in Calls : \/ a.api = "RTCPeerConnection"
                   \/ a.api = "addEventListener"
                      /\ a.kind \in {"devicemotion", "deviceorientation"}}

\* C19: the decision for a peer connection or for a motion-sensor listener does
\* not depend on the geolocation toggle: with the geolocation field of the
\* policy set to true or to false, and nothing else changed, the call that was
\* just decided gets the same decision
C19_GeolocationIndependent ==
    (/\ last.op = "invoke"
     /\ last.arg \in PeerAndMotionCalls
     /\ last.res = PageApi(cache, loc, now, last.arg))
    => \A v \in BOOLEAN :
            PageApi(WithGeolocation(cache, loc, v), loc, now, last.arg).decision
                = last.res.decision

\* the calls that end with a fault raised to the caller
Faults == {"throw: internal error", "TypeError: not a function",
           "TypeError: property of undefined"}

\* C20: when the policy resolution throws inside an interceptor, the call of a
\* sensitive capability (geolocation, clipboard, notifications) is blocked,
\* the call of an infrastructural one (fetch) is allowed, and no fault reaches
\* the caller
C20_FailureSafeDefault ==
    (last.op = "invoke" /\ last.err = "SG_getDomainPolicy throws") =>
        /\ SensitiveFields(last.arg) # {} => last.res.decision = "blocked"
        /\ last.arg.api = "fetch" => last.res.decision = "allowed"
        /\ last.res.how \notin Faults

\* an eviction: the history was at the cap and a record dropped its oldest entry
C21_Evicted ==
    /\ last.op = "recordCookieAction"
    /\ Len(scriptguard_cookie_actions) = MAX_ACTIONS
    /\ scriptguard_cookie_actions[MAX_ACTIONS].cookieName = 3 - MAX_ACTIONS
    /\ scriptguard_cookie_actions[1] = last.res[1]

\* C21: the history never holds more than 50 entries; a record puts the new
\* entry first, keeps the others in their order and drops what is beyond 50;
\* an undo removes the first entry and returns it, and on an empty history
\* returns null and changes nothing
C21_HistoryCapped ==
    /\ [](Len(scriptguard_cookie_actions) <= MAX_ACTIONS)
    /\ [][/\ last'.op \in {"recordCookieAction", "popup.recordCookieAction"} =>
                LET h == scriptguard_cookie_actions
                    h2 == scriptguard_cookie_actions'
                    n == IF Len(h) < MAX_ACTIONS THEN Len(h) ELSE MAX_ACTIONS - 1
                IN  /\ h2[1] = ActionWithMeta(last'.arg, last'.key, now)
                    /\ Len(h2) = n + 1
                    /\ \A i \in 1..n : h2[i + 1] = h[i]
          /\ last'.op = "undoLastCookieAction" =>
                IF scriptguard_cookie_actions = <<>>
                THEN last'.res = <<>> /\ scriptguard_cookie_actions' = <<>>
                ELSE /\ last'.res = <<scriptguard_cookie_actions[1]>>
                     /\ scriptguard_cookie_actions' = Tail(scriptguard_cookie_actions)
        ]_vars

\* C22: once SG_CLEAR_LOGS has responded ok, the persisted log holds no record
\* that the background received before the request, whether or not a flush
\* was pending or in flight at the request
C22_ClearedStaysCleared ==
    clearRequest.state = "ok" =>
        \A i \in 1..Len(scriptguard_logs) : scriptguard_logs[i] >= clearRequest.at

\* two records were received and one timer is pending
C26_SecondEnqueue ==
    /\ seq = 3 /\ Len(logBuffer) = 2
    /\ timers = 1 /\ flushTimer
    /\ storageQ = <<>> /\ scriptguard_logs = <<>>

\* C26: at most one flush timer is pending, and flushTimer is set exactly while
\* it is; an enqueue leaves one timer pending, armed by it or by an earlier
\* enqueue; the callback of the timer clears flushTimer
C26_OneTimer ==
    /\ [](timers <= 1 /\ (flushTimer <=> timers = 1))
    /\ [][/\ seq' # seq => timers' = 1 /\ flushTimer'
          /\ timers' < timers => timers' = 0 /\ ~flushTimer']_vars

\* records are buffered, no timer is pending and no call is in flight: the
\* flush that took them has failed
C27_FlushFailed ==
    /\ logBuffer # <<>>
    /\ timers = 0
    /\ storageQ = <<>>

\* C27: when the get or the set of a flush fails, the persisted log is not
\* changed by the failed call, the code after the await keeps the buffered
\* records and the persisted log as they are, and no handler's response changes
C27_FlushFailureSwallowed ==
    [][(/\ storageQ # <<>>
        /\ storageQ' # <<>> \/ Head(storageQ).served
        /\ \E i \in 1..Len(storageQ) :
                /\ storageQ[i].kind \in {"get", "set"}
                /\ Len(storageQ') >= i => storageQ'[i] # storageQ[i]
                /\ \/ i = 1 /\ storageQ[i].served /\ ~storageQ[i].ok
                      /\ storageQ' = Tail(storageQ)
                   \/ ~storageQ[i].served /\ Len(storageQ') = Len(storageQ)
                      /\ storageQ'[i].served /\ ~storageQ'[i].ok)
        => /\ scriptguard_logs' = scriptguard_logs
           /\ logBuffer' = logBuffer
           /\ clearRequest' = clearRequest /\ logsResponse' = logsResponse
           /\ last' = last
      ]_vars

\* C23: the purge of blocked cookies is neither blocked nor logged by the
\* interceptors of document.cookie, whatever the cookies toggle is, and a DOM
\* call made while the internal-call flag is set is allowed without a log in
\* every DOM mode
C23_InternalBypass ==
    /\ last.op = "SG_removeBlockedCookies" =>
            /\ last.res.decision = "allowed"
            /\ \A i \in 1..Len(last.res.logs) :
                    last.res.logs[i].detail \notin {"read", "write"}
    /\ (last.op = "invoke" /\ last.arg \in InternalCalls) =>
            last.res.decision = "allowed" /\ last.res.logs = <<>>

\* C24: for an allowed fetch of a page URL, a second argument that is present, not null and
\* not an object is dropped and the native call gets the resource only; an
\* object, null or absent second argument is passed as it is; and a call that
\* is allowed with an object as second argument is allowed with any other
C24_MalformedSanitized ==
    (/\ last.op = "invoke"
     /\ last.arg.api = "fetch" /\ last.arg.url = "page"
     /\ last.res = PageApi(cache, loc, now, last.arg))
    => /\ last.res.decision = "allowed" =>
            last.res.how = IF last.arg.kind \in {"object", "null"}
                           THEN "native(resource,init)"
                           ELSE "native(resource)"
       /\ PageApi(cache, loc, now, [last.arg EXCEPT !.kind = "object"]).decision
                = "allowed"
            => last.res.decision = "allowed"

\* the policies P after the DOM mode of every document that the resolution for
\* L reads is set to v
WithDom(P, L, v) ==
    [k \in DOMAIN P |->
        IF k \in {"default", L.hostname, L.host, L.origin}
        THEN Put(P[k], "dom", v)
        ELSE P[k]]

\* the policies P after the DOM mode is removed from those documents
WithoutDom(P, L) ==
    [k \in DOMAIN P |->
        IF k \in {"default", L.hostname, L.host, L.origin}
        THEN [f \in DOMAIN P[k] \ {"dom"} |-> P[k][f]]
        ELSE P[k]]

\* an insertion was blocked under mode readonly with no temporary override
C25_ReadonlyBlocked ==
    /\ last.op = "invoke" /\ last.arg = Call("appendChild", "page", "appendChild")
    /\ last.res.decision = "blocked"
    /\ NoLiveTemp(cache, loc, now)
    /\ Policy2(cache, loc, now)["dom"] = "readonly"

\* C25: for an insertion or a markup replacement by page code with no live
\* temporary override: with the DOM mode set to full, or removed, the call is
\* allowed; with the mode set to readonly and with the mode set to none the
\* call is blocked, with the same result and the same log record
C25_ReadonlyAsNone ==
    (/\ last.op = "invoke"
     /\ last.arg.api \in {"appendChild", "innerHTML"} /\ last.arg.url = "page"
     /\ NoLiveTemp(cache, loc, now))
    => /\ PageApi(WithDom(cache, loc, "full"), loc, now, last.arg).decision = "allowed"
       /\ PageApi(WithoutDom(cache, loc), loc, now, last.arg).decision = "allowed"
       /\ PageApi(WithDom(cache, loc, "readonly"), loc, now, last.arg)
            = PageApi(WithDom(cache, loc, "none"), loc, now, last.arg)
       /\ StoredPresent(cache, loc, "dom") =>
            PageApi(WithDom(cache, loc, "none"), loc, now, last.arg).decision = "blocked"

\* no message, read, event, timer or storage call is pending
Quiescent ==
    /\ windowQ = <<>> /\ relayReads = <<>> /\ changed = 0
    /\ timers = 0 /\ storageQ = <<>>

\* a push has been made, its log records are persisted and nothing is pending
C28_Settled ==
    /\ Quiescent
    /\ nops > 0
    /\ Len(scriptguard_logs) = 2
    /\ cache = store

\* C28: the background receives at most the two records of each push, and
\* there is at most one push for each mutation: the write of the log key starts
\* no push; and in the end nothing is pending, for good
C28_NoFeedbackLoop ==
    /\ [](seq - 1 <= 2 * nops)
    /\ <>[]Quiescent

\* the patterns in the order classifyCategory tests them, and their categories
C29_Rules ==
    <<[patterns |-> ESSENTIAL_PATTERNS, category |-> "ESSENTIAL"],
      [patterns |-> TRACKER_PATTERNS, category |-> "TRACKER"],
      [patterns |-> ANALYTICS_PATTERNS, category |-> "ANALYTICS"],
      [patterns |-> ADS_PATTERNS, category |-> "ADS"]>>

C29_Matched(name) == {i \in DOMAIN C29_Rules : RegexTest(C29_Rules[i].patterns, name)}

\* a classified name matches the essential pattern and the ad pattern, and its
\* category is that of the earlier rule
C29_SeveralMatch ==
    /\ last.op = "classify"
    /\ {1, 4} \subseteq C29_Matched(last.arg.cookie.name)
    /\ last.res.category = "ESSENTIAL"

\* C29: the category of a classified cookie is that of the earliest of the rules
\* essential, tracker, analytics, ads its name matches; a name that matches none
\* is remember-me when the cookie is persistent and essential otherwise
C29_FirstMatchWins ==
    last.op = "classify" =>
        LET matched == C29_Matched(last.arg.cookie.name)
            first == CHOOSE i \in matched : \A k \in matched : i <= k
        IN  IF matched # {}
            THEN last.res.category = C29_Rules[first].category
            ELSE last.res.category =
                    IF isPersistent(last.arg.cookie, now) THEN "REMEMBER_ME"
                    ELSE "ESSENTIAL"

\* the five terms of the score of the classified cookie, before the floor
C30_Sum ==
    LET cookie == last.arg.cookie
    IN  3 * (IF isThirdPartyCookie(cookie, last.arg.requestUrl) THEN 1 ELSE 0)
        + 2 * (IF isPersistent(cookie, now) THEN 1 ELSE 0)
        + 2 * (IF RegexTest(TRACKER_PATTERNS, cookie.name) THEN 1 ELSE 0)
        - 2 * (IF cookie.httpOnly THEN 1 ELSE 0)
        - (IF cookie.secure THEN 1 ELSE 0)

C31_SettingDomain ==
    LET d == last.arg.cookie.domain
    IN  IF d # <<>> /\ Head(d) = "." THEN Tail(d) ELSE d

\* the host of the request URL is the setting domain or one of its subdomains
C31_SameSite ==
    LET host == last.arg.requestUrl.hostname
    IN  \/ host = C31_SettingDomain
        \/ EndsWith(host, <<".">> \o C31_SettingDomain)

\* C31: a cookie with a setting domain, classified for a URL with a host, gets the
\* third-party +3 and its reason exactly when the host is neither the setting
\* domain nor a subdomain of it, also when the host only ends with its characters
C31_ThirdPartyExact ==
    (/\ last.op = "classify"
     /\ last.arg.requestUrl.kind = "url"
     /\ last.arg.cookie.domain # <<>>)
        => (~C31_SameSite
                <=> \E i \in DOMAIN last.res.reasons :
                        last.res.reasons[i].text = "Set by a different domain")

FlushInProgress == \E i \in DOMAIN storageQ : storageQ[i].kind \in {"get", "set"}

\* C33: when no flush is in progress and no clearing was requested, every record
\* the background has accepted is in the buffer or in the persisted log (the
\* records accepted here are newer than all others, so no limit sheds them)
C33_NoRecordLost ==
    (~FlushInProgress /\ clearRequest.state = "none")
        => \A r \in 1..(seq - 1) :
                \/ \E i \in DOMAIN logBuffer : logBuffer[i] = r
                \/ \E i \in DOMAIN scriptguard_logs : scriptguard_logs[i] = r

\* two flushes have storage calls in flight while a record of the first one is
\* in the persisted log
C35_FlushesOverlap ==
    /\ \E i, j \in DOMAIN storageQ :
            i < j /\ storageQ[i].kind \in {"get", "set"} /\ storageQ[j].kind \in {"get", "set"}
    /\ \E i \in DOMAIN scriptguard_logs : scriptguard_logs[i] = 1

\* C35: each record handed to the buffer is at most once in the persisted log
C35_PersistedOnce ==
    \A r \in 1..(seq - 1) :
        Cardinality({i \in DOMAIN scriptguard_logs : scriptguard_logs[i] = r}) <= 1

\* C36 as stated: whenever the buffer is not empty and no flush is in progress,
\* a flush timer is pending
C36_TimerWhileBuffered ==
    (logBuffer # <<>> /\ ~FlushInProgress) => timers > 0

\* records are retained in the buffer, no flush is in progress and no timer is
\* pending, and a further record can arrive
C36_RetainedWithoutTimer ==
    /\ logBuffer # <<>>
    /\ ~FlushInProgress
    /\ timers = 0
    /\ seq <= MaxEnqueue

\* C36, amended: a timer is pending after every record the background accepts,
\* also when the buffer held retained records and no timer was pending before
C36_RetryOnNextEnqueue ==
    [][seq' # seq => (timers' > 0 /\ flushTimer' /\ logBuffer' # <<>>)]_vars

\* the default document of a record, the empty object when it has none
DefaultOf(policies) == IF Has(policies, "default") THEN policies["default"] ELSE EmptyObj

\* the pages no key of which is the key a temporary override was set for
OtherPages(key) == {L \in Locations : key \notin {L.hostname, L.host, L.origin}}

\* C34: setting a temporary override for an origin changes neither the stored
\* default document nor the outcome of any call on a page of another origin
C34_OverrideScoped ==
    [][last'.op \in {"setAllowOnce", "popup.setAllowOnce"} =>
            /\ Has(store', "default") = Has(store, "default")
            /\ DefaultOf(store') = DefaultOf(store)
            /\ \A L \in OtherPages(last'.key) : \A a \in TempCalls :
                    PageApi(store', L, now, a) = PageApi(store, L, now, a)]_vars

\* the capability fields of a resolved policy
Capabilities(policy) == [f \in DOMAIN policy \ {"_allowOnce"} |-> policy[f]]

\* the resolutions of the two agent blocks and of policies.js for the page L
\* under the record at the time t, capability fields only
Resolved(policies, L, t) ==
    <<Capabilities(Policy1(policies, L, t)), Capabilities(Policy2(policies, L, t)),
      Capabilities(getDomainPolicy(policies, L.hostname))>>

\* C37: once a temporary override has expired, the policy resolved for its origin
\* is the one resolved from the record as it was before the override was set,
\* also when the default document is replaced after the override was set
C37_NoTraceAfterExpiry ==
    [][last'.op \in {"setAllowOnce", "popup.setAllowOnce"} =>
            LET expired == last'.arg + 1
            IN  \A L \in Locations \ OtherPages(last'.key) :
                    /\ Resolved(store', L, expired) = Resolved(store, L, expired)
                    /\ \A doc \in UpdateDocs :
                            Resolved(updateDomainPolicy(store', "default", doc), L, expired)
                                = Resolved(updateDomainPolicy(store, "default", doc), L,
                                           expired)]_vars

\* the step has saved a policy for the key, or has applied a known preset to it
C38_Replaced(step) ==
    /\ step.key # "default"
    /\ \/ step.op = "savePolicy"
       \/ step.op = "applyPreset" /\ step.err = "none"
       \/ step.op = "popup.applyPreset" /\ Has(popup_getPresets(presetsSet), step.arg)

\* C38: after a policy is saved for an origin or a preset is applied to it, the
\* stored document of the origin carries no temporary override, and on a page of
\* the origin no temporary override is in force
C38_OverrideCancelled ==
    [][C38_Replaced(last') =>
            /\ ~Has(store'[last'.key], "_allowOnce")
            /\ \A L \in {l \in Locations : l.hostname = last'.key} :
                    /\ ~SG_isTempAllowed(Policy1(store', L, now), now)
                    /\ ~SG_isTempAllowed(Policy2(store', L, now), now)]_vars

\* C39: for the persisted record and every page, the policy that getDomainPolicy
\* of policies.js resolves for the hostname and the one SG_getDomainPolicy of
\* either agent block resolves from the same record have the same capability
\* fields with the same values
C39_ResolversAgree ==
    \A L \in Locations :
        /\ Capabilities(getDomainPolicy(store, L.hostname))
                = Capabilities(Policy1(store, L, now))
        /\ Capabilities(getDomainPolicy(store, L.hostname))
                = Capabilities(Policy2(store, L, now))

\* C40: the cache of the page is empty or holds a policy record that the
\* storage has held, whatever messages the scripts of the page post
C40_CacheIntegrity == cache = EmptyObj \/ cache \in persisted

====
